---- MODULE Spec2Model ----
(***************************************************************************)
(* A model of the routing decision engine (utils/intelligent-router.js),   *)
(* the duplicate / reprocessing state manager (DuplicateDetectionManager)  *)
(* and the controller that drives them (scripts/router-controller.js).     *)
(*                                                                         *)
(* Conventions                                                             *)
(*  - a JavaScript value that may be undefined is a sequence: <<>> is      *)
(*    undefined and <<v>> is the value v;                                  *)
(*  - complexity scores are integers in hundredths (0.7 is 70);            *)
(*  - a string that the code compares or slices is a sequence of           *)
(*    character codes; other strings are TLA+ strings.                     *)
(***************************************************************************)
EXTENDS Integers, Sequences, FiniteSets, TLC

VARIABLES
    ruleIn,            \* the arguments of the call, or calls, under test
    ruleOut,           \* what the call returned (<<>> before it ran), or which calls ran
    processedContent,  \* DuplicateDetectionManager.processedContent (the Map)
    now,               \* the clock read by new Date()
    lastOp,            \* the last call made on the manager, with its arguments
    completedFps,      \* fingerprints marked completed since their last forceReprocess
    req,               \* the POST /route request being served
    backends,          \* LocalModelManager.loadedModels and CloudModelManager's counters
    batch,             \* the processBatch call being served
    router,            \* IntelligentRouter.performanceHistory and today's costTracking
    engine             \* WorkflowEngine.workflows and activeJobs, and the execute calls made

vars ==
    <<ruleIn, ruleOut, processedContent, now, lastOp, completedFps, req, backends, batch,
      router, engine>>
pureVars == <<ruleIn, ruleOut>>
storeVars == <<processedContent, now, lastOp, completedFps>>

(***************************************************************************)
(* Bounds of the model.                                                    *)
(***************************************************************************)
MaxClock == 3
MaxRouterClock == 1
MaxRequests == 1
MaxItems == 3
MaxBatchOpt == 2
MaxSpins == 2
MaxUpdates == 3
MaxRepeat == 2
MaxChars == 4
MaxRuns == 2

(***************************************************************************)
(* Program constants.                                                      *)
(***************************************************************************)
ShortLength == 500
LongLength == 2000
LongContentLength == 5000
SimpleScore == 30
TradingScore == 70
HighScore == 80
MaxScore == 100
LongIncrement == 30
PatternBase == 10
PatternPerMatch == 5
TechnicalIncrement == 20
MaxErrorCount == 3
QualityThreshold == 70
DefaultQuality == 80
DefaultBatchSize == 10
TradingCloudKeywords == 2
HighCost == 100000000
SlowLatency == 30000

Undefined == <<>>
Def(v) == <<v>>
IsDefined(x) == x # <<>>
Val(x) == x[1]

\* JavaScript's x < n when x may be undefined: undefined compares false.
JsLess(x, n) == IsDefined(x) /\ Val(x) < n
\* JavaScript truthiness of a value that is undefined or a boolean.
Truthy(x) == IsDefined(x) /\ Val(x) = TRUE

Min(a, b) == IF a < b THEN a ELSE b
Max(a, b) == IF a > b THEN a ELSE b

(***************************************************************************)
(* Routing rule engine: IntelligentRouter.applyRoutingRules.               *)
(***************************************************************************)
Decision(routeTo, model, reasoning) ==
    [route_to |-> routeTo, model |-> model, reasoning |-> reasoning,
     fallback_to_cloud |-> FALSE, skip_processing |-> FALSE,
     cached_result |-> Undefined, original_decision |-> Undefined]

applyRoutingRules_trading_last(len, complexity, classification) ==
    IF classification.content_type = "image"
    THEN Decision("local", "vision_analysis", "Image content routed to local vision model")
    ELSE IF len < ShortLength /\ complexity.complexity_score < SimpleScore
    THEN Decision("local", "classification", "Short, simple content processed locally for speed")
    ELSE IF len >= LongLength /\ complexity.complexity_score < HighScore
    THEN [Decision("local", "complex_reasoning", "Long content processed with local advanced model")
            EXCEPT !.fallback_to_cloud = TRUE]
    ELSE IF complexity.complexity_score >= HighScore
    THEN Decision("cloud", "abacus_claude", "High complexity requires cloud processing")
    ELSE IF "trading_content" \in classification.categories
            /\ complexity.complexity_score > TradingScore
    THEN Decision("cloud", "abacus_gpt4o", "Complex trading analysis requires advanced cloud model")
    ELSE Decision("local", "general_processing", "Default routing to local general model")

applyRoutingRules(len, complexity, classification) ==
    IF classification.content_type = "image"
    THEN Decision("local", "vision_analysis", "Image content routed to local vision model")
    ELSE IF "trading_content" \in classification.categories
            /\ complexity.complexity_score > TradingScore
    THEN Decision("cloud", "abacus_gpt4o", "Complex trading analysis requires advanced cloud model")
    ELSE IF len < ShortLength /\ complexity.complexity_score < SimpleScore
    THEN Decision("local", "classification", "Short, simple content processed locally for speed")
    ELSE IF len >= LongLength /\ complexity.complexity_score < HighScore
    THEN [Decision("local", "complex_reasoning", "Long content processed with local advanced model")
            EXCEPT !.fallback_to_cloud = TRUE]
    ELSE IF complexity.complexity_score >= HighScore
    THEN Decision("cloud", "abacus_claude", "High complexity requires cloud processing")
    ELSE Decision("local", "general_processing", "Default routing to local general model")

(***************************************************************************)
(* Content.  A text is a sequence of words separated by single spaces,     *)
(* followed by `pad` filler characters and `ws` extra whitespace           *)
(* characters; `kind` is "string" for a text and "object" for a request    *)
(* body whose content is not a string.                                     *)
(***************************************************************************)
Words == {"analysis", "strategy", "arbitrage", "trading", "market", "marketing",
          "data", "code", "stock", "tesla", "news", "hello"}

WordLen(w) ==
    CASE w = "analysis" -> 8 [] w = "strategy" -> 8 [] w = "arbitrage" -> 9
      [] w = "trading" -> 7 [] w = "market" -> 6 [] w = "marketing" -> 9
      [] w = "data" -> 4 [] w = "code" -> 4 [] w = "stock" -> 5
      [] w = "tesla" -> 5 [] w = "news" -> 4 [] w = "hello" -> 5

RECURSIVE SumLen(_)
SumLen(ws) == IF ws = <<>> THEN 0 ELSE WordLen(Head(ws)) + SumLen(Tail(ws))

\* content.length
Length(content) ==
    SumLen(content.words) + Max(Len(content.words) - 1, 0) + content.pad + content.ws

\* The words each pattern family of analyzeComplexity matches (\b...\b, flags gi).
ComplexityIndicators ==
    << {"analysis", "strategy"}, {"arbitrage", "trading", "market"}, {"data"} >>
TechnicalWords == {"code"}
InformationalWords == {"news"}

\* The trading keywords classifyContent finds in a word (String.includes: a
\* substring test, so "marketing" holds "market").
TradingKeywordsIn(w) ==
    CASE w = "arbitrage" -> {"arbitrage"} [] w = "trading" -> {"trading"}
      [] w = "market" -> {"market"} [] w = "marketing" -> {"market"}
      [] w = "stock" -> {"stock"} [] w = "tesla" -> {"tesla"}
      [] OTHER -> {}

\* content.match(pattern).length for a /g pattern: every occurrence counts.
Matches(content, family) ==
    Cardinality({i \in 1..Len(content.words) : content.words[i] \in family})

RECURSIVE AddIndicators(_, _, _)
AddIndicators(content, score, k) ==
    IF k > Len(ComplexityIndicators) THEN score
    ELSE LET m == Matches(content, ComplexityIndicators[k])
         IN AddIndicators(content,
                IF m > 0 THEN score + PatternBase + m * PatternPerMatch ELSE score,
                k + 1)

(***************************************************************************)
(* Content classifier: analyzeComplexity and classifyContent.              *)
(***************************************************************************)
analyzeComplexity_uncapped(content) ==
    LET s0 == IF Length(content) > LongContentLength THEN LongIncrement ELSE 0
        s1 == AddIndicators(content, s0, 1)
        s2 == IF Matches(content, TechnicalWords) > 0 THEN s1 + TechnicalIncrement ELSE s1
    IN [length |-> Length(content), complexity_score |-> s2]

analyzeComplexity(content) ==
    LET s0 == IF Length(content) > LongContentLength THEN LongIncrement ELSE 0
        s1 == AddIndicators(content, s0, 1)
        s2 == IF Matches(content, TechnicalWords) > 0 THEN s1 + TechnicalIncrement ELSE s1
    IN [length |-> Length(content), complexity_score |-> Min(s2, MaxScore)]

classifyContent(content, contentType) ==
    LET found == UNION {TradingKeywordsIn(content.words[i]) : i \in 1..Len(content.words)}
    IN [content_type |-> contentType,
        categories |->
            (IF found # {} THEN {"trading_content"} ELSE {})
            \cup (IF Matches(content, TechnicalWords) > 0 THEN {"technical_content"} ELSE {})
            \cup (IF Matches(content, InformationalWords) > 0
                  THEN {"informational_content"} ELSE {})
            \cup (IF contentType \in {"image", "video"} THEN {"multimedia_content"} ELSE {}),
        keywords |-> found,
        priority |-> IF found # {} THEN "high" ELSE "medium",
        requires_cloud |-> Cardinality(found) > TradingCloudKeywords]

(***************************************************************************)
(* Routing optimizer and fallback.  Costs are in quarters of a millionth   *)
(* of a dollar (25.0 dollars is 100000000); dailyCost is getDailyCost(),   *)
(* perf is performanceHistory: a function from "route:model" keys to       *)
(* [avg_latency].                                                          *)
(***************************************************************************)
PerfKey(routeType, model) == <<routeType, model>>

getModelPerformance(perf, routeType, model) ==
    IF PerfKey(routeType, model) \in DOMAIN perf
    THEN Def(perf[PerfKey(routeType, model)]) ELSE Undefined

\* A quotient the code holds as a float, kept exact as numerator and denominator.
Ratio(n, d) == [num |-> n, den |-> d]
RatioExceeds(r, n) == r.num > n * r.den

NoHistory == [count |-> 0, total_latency |-> 0, total_cost |-> 0]
NoMetrics == [latency |-> Undefined, cost |-> Undefined]

\* metrics.latency || 0
OrZero(x) == IF IsDefined(x) THEN Val(x) ELSE 0

updatePerformanceHistory_lost(perf, routeType, model, metrics) ==
    LET key == PerfKey(routeType, model)
        updated == [count |-> 1,
                    total_latency |-> OrZero(metrics.latency),
                    total_cost |-> OrZero(metrics.cost),
                    avg_latency |-> Ratio(OrZero(metrics.latency), 1),
                    avg_cost |-> Ratio(OrZero(metrics.cost), 1)]
    IN [k \in DOMAIN perf \cup {key} |-> IF k = key THEN updated ELSE perf[k]]

\* The whole method runs without an await: one step of the event loop.
updatePerformanceHistory(perf, routeType, model, metrics) ==
    LET key == PerfKey(routeType, model)
        existing == IF key \in DOMAIN perf THEN perf[key] ELSE NoHistory
        count == existing.count + 1
        totalLatency == existing.total_latency + OrZero(metrics.latency)
        totalCost == existing.total_cost + OrZero(metrics.cost)
        updated == [count |-> count,
                    total_latency |-> totalLatency,
                    total_cost |-> totalCost,
                    avg_latency |-> Ratio(totalLatency, count),
                    avg_cost |-> Ratio(totalCost, count)]
    IN [k \in DOMAIN perf \cup {key} |-> IF k = key THEN updated ELSE perf[k]]

optimizeRouting_any_cost(routingDecision, options, dailyCost, perf) ==
    LET afterCost ==
            IF options.cost_mode = "optimize" /\ routingDecision.route_to = "cloud"
            THEN [Decision("local", "complex_reasoning", "Switched to local due to cost limits")
                    EXCEPT !.original_decision = Def(routingDecision)]
            ELSE routingDecision
        localModelPerformance == getModelPerformance(perf, "local", afterCost.model)
    IN IF options.priority = "high" /\ IsDefined(localModelPerformance)
          /\ RatioExceeds(Val(localModelPerformance).avg_latency, SlowLatency)
       THEN [Decision("cloud", "abacus_claude_haiku", "Switched to cloud for better performance")
               EXCEPT !.original_decision = Def(afterCost)]
       ELSE afterCost

optimizeRouting_at_threshold(routingDecision, options, dailyCost, perf) ==
    LET afterCost ==
            IF options.cost_mode = "optimize" /\ dailyCost > HighCost
               /\ routingDecision.route_to = "cloud"
            THEN [Decision("local", "complex_reasoning", "Switched to local due to cost limits")
                    EXCEPT !.original_decision = Def(routingDecision)]
            ELSE routingDecision
        localModelPerformance == getModelPerformance(perf, "local", afterCost.model)
    IN IF options.priority = "high" /\ IsDefined(localModelPerformance)
          /\ RatioExceeds(Val(localModelPerformance).avg_latency, SlowLatency - 1)
       THEN [Decision("cloud", "abacus_claude_haiku", "Switched to cloud for better performance")
               EXCEPT !.original_decision = Def(afterCost)]
       ELSE afterCost

optimizeRouting(routingDecision, options, dailyCost, perf) ==
    LET afterCost ==
            IF options.cost_mode = "optimize" /\ dailyCost > HighCost
               /\ routingDecision.route_to = "cloud"
            THEN [Decision("local", "complex_reasoning", "Switched to local due to cost limits")
                    EXCEPT !.original_decision = Def(routingDecision)]
            ELSE routingDecision
        localModelPerformance == getModelPerformance(perf, "local", afterCost.model)
    IN IF options.priority = "high" /\ IsDefined(localModelPerformance)
          /\ RatioExceeds(Val(localModelPerformance).avg_latency, SlowLatency)
       THEN [Decision("cloud", "abacus_claude_haiku", "Switched to cloud for better performance")
               EXCEPT !.original_decision = Def(afterCost)]
       ELSE afterCost

getFallbackRoute_by_type(contentType) ==
    Decision("local", contentType, "Fallback route due to routing error")

getFallbackRoute(contentType) ==
    Decision("local", "general_processing", "Fallback route due to routing error")

(***************************************************************************)
(* Processing versions.  A version is <<major, minor, patch>>; the code    *)
(* holds it as the string "major.minor.patch" and compares strings.        *)
(***************************************************************************)
RECURSIVE DigitChars(_)
DigitChars(n) == IF n < 10 THEN <<48 + n>> ELSE Append(DigitChars(n \div 10), 48 + (n % 10))

VersionString(v) ==
    DigitChars(v[1]) \o <<46>> \o DigitChars(v[2]) \o <<46>> \o DigitChars(v[3])

\* JavaScript's a < b on strings: lexicographic on the code units.
RECURSIVE StrLess(_, _)
StrLess(a, b) ==
    IF b = <<>> THEN FALSE
    ELSE IF a = <<>> THEN TRUE
    ELSE IF Head(a) # Head(b) THEN Head(a) < Head(b)
    ELSE StrLess(Tail(a), Tail(b))

getCurrentProcessingVersion == VersionString(<<2, 0, 0>>)

hasNewerProcessingVersion_or_same(oldVersion) ==
    IsDefined(oldVersion) /\ ~StrLess(getCurrentProcessingVersion, Val(oldVersion))

hasNewerProcessingVersion(oldVersion) ==
    IsDefined(oldVersion) /\ StrLess(Val(oldVersion), getCurrentProcessingVersion)

\* contentTag.includes(tag) for some priority tag (bitcoin, tesla, solana, sbr).
HoldsPriorityTag(contentTag) == contentTag \in {"bitcoin", "tesla stock", "sbr"}

hasPriorityTagsNeedingReprocessing(processedInfo) ==
    LET contentTags == IF IsDefined(processedInfo.content_metadata)
                       THEN Val(processedInfo.content_metadata).tags ELSE {}
    IN (\E contentTag \in contentTags : HoldsPriorityTag(contentTag))
       /\ IsDefined(processedInfo.processing_version)
       /\ StrLess(Val(processedInfo.processing_version), VersionString(<<2, 0, 0>>))

(***************************************************************************)
(* Reprocessing policy: DuplicateDetectionManager.shouldReprocess.         *)
(***************************************************************************)
Verdict(should, reason) == [should_reprocess |-> should, reason |-> reason]

shouldReprocess_retry_first(processedInfo) ==
    IF IsDefined(processedInfo.status) /\ Val(processedInfo.status) = "failed"
       /\ JsLess(processedInfo.error_count, MaxErrorCount)
    THEN Verdict(TRUE, "retry_failed_processing")
    ELSE IF Truthy(processedInfo.force_reprocess_flag)
    THEN Verdict(TRUE, "force_reprocess_requested")
    ELSE IF JsLess(processedInfo.quality_score, QualityThreshold)
            /\ hasNewerProcessingVersion(processedInfo.processing_version)
    THEN Verdict(TRUE, "quality_improvement_available")
    ELSE IF hasPriorityTagsNeedingReprocessing(processedInfo)
    THEN Verdict(TRUE, "priority_tags_detected")
    ELSE Verdict(FALSE, "content_acceptable")

shouldReprocess(processedInfo) ==
    IF Truthy(processedInfo.force_reprocess_flag)
    THEN Verdict(TRUE, "force_reprocess_requested")
    ELSE IF IsDefined(processedInfo.status) /\ Val(processedInfo.status) = "failed"
            /\ JsLess(processedInfo.error_count, MaxErrorCount)
    THEN Verdict(TRUE, "retry_failed_processing")
    ELSE IF JsLess(processedInfo.quality_score, QualityThreshold)
            /\ hasNewerProcessingVersion(processedInfo.processing_version)
    THEN Verdict(TRUE, "quality_improvement_available")
    ELSE IF hasPriorityTagsNeedingReprocessing(processedInfo)
    THEN Verdict(TRUE, "priority_tags_detected")
    ELSE Verdict(FALSE, "content_acceptable")

\* A processing record with every field undefined; the writers below set theirs.
EmptyInfo ==
    [content_hash |-> Undefined, content_id |-> Undefined,
     processing_status |-> Undefined, status |-> Undefined,
     started_processing |-> Undefined, last_processed |-> Undefined,
     quality_score |-> Undefined, processing_version |-> Undefined,
     result |-> Undefined, force_reprocess_flag |-> Undefined,
     error_count |-> Undefined, content_metadata |-> Undefined,
     original_content |-> Undefined, reprocess_reason |-> Undefined]

(***************************************************************************)
(* Fingerprints: DuplicateDetectionManager.generateContentFingerprint.     *)
(* An item is [title, content, url, tags]; a url is [kind, id, query]      *)
(* with kind "none" (no url), "post" (.../posts/<id>), "filter"            *)
(* (patreon.com/<id>/posts?...) or "other".  A digest is modelled by the   *)
(* tuple it hashes: distinct tuples have distinct digests.                 *)
(***************************************************************************)
NoUrl == [kind |-> "none", id |-> 0, query |-> FALSE]

\* null without a url, the digits of /posts/<id>, "<creator>_filtered" for a
\* listing url, else the first 8 hex digits of the md5 of the whole url.
extractPatreonPostId(url) ==
    CASE url.kind = "none" -> [kind |-> "null", id |-> 0, query |-> FALSE]
      [] url.kind = "post" -> [kind |-> "post", id |-> url.id, query |-> FALSE]
      [] url.kind = "filter" -> [kind |-> "filtered", id |-> url.id, query |-> FALSE]
      [] OTHER -> [kind |-> "md5", id |-> url.id, query |-> url.query]

\* url.split('?')[0].toLowerCase(): the query string is dropped.
normalizeUrl(url) == IF url.kind = "none" THEN NoUrl ELSE [url EXCEPT !.query = FALSE]

\* Runs of whitespace collapse to one space; the text is trimmed and lowercased.
normalizeText(text) == [words |-> text.words, pad |-> text.pad]

\* '' for an empty content, else the sha256 of the normalized text.
createContentHash(content) ==
    [empty |-> Length(content) = 0, words |-> content.words, pad |-> content.pad]

extractAndNormalizeTags(tags) == tags

EmptyText == [kind |-> "string", words |-> <<>>, pad |-> 0, ws |-> 0]

\* [threw, value]: extractVideoId calls content.match, which a content that is
\* not a string does not have.
generateContentFingerprint(item) ==
    IF item.content.kind # "string"
    THEN [threw |-> TRUE, value |-> Undefined]
    ELSE LET fingerprintData ==
                [post_id |-> extractPatreonPostId(item.url),
                 video_id |-> Undefined,
                 title |-> normalizeText(item.title),
                 content_hash |-> createContentHash(item.content),
                 tags |-> extractAndNormalizeTags(item.tags),
                 normalized_url |-> normalizeUrl(item.url)]
         IN [threw |-> FALSE,
             value |-> Def([primary_fingerprint |->
                                <<fingerprintData.post_id, fingerprintData.title,
                                  fingerprintData.content_hash>>,
                            metadata |-> fingerprintData])]

(***************************************************************************)
(* Durable store: the three database operations of the manager.            *)
(***************************************************************************)
checkDatabase(fingerprint) == [found |-> FALSE, data |-> Undefined]

\* saveToDatabase only logs: the durable store keeps nothing.  TRUE: the call
\* resolves.
saveToDatabase(processingInfo) == TRUE

\* this.contentDatabase of the constructor: no database is ever connected.
contentDatabase == Undefined

findContentByIdentifier(identifier) == {}

(***************************************************************************)
(* Duplicate / state store.  cache is processedContent: a function from    *)
(* the primary fingerprints it holds to their records.                     *)
(***************************************************************************)
Put(cache, key, info) ==
    [k \in DOMAIN cache \cup {key} |-> IF k = key THEN info ELSE cache[k]]

CheckResult(info) ==
    [is_duplicate |-> TRUE,
     processing_status |-> info.status,
     last_processed |-> info.last_processed,
     quality_score |-> info.quality_score,
     should_reprocess |-> Def(shouldReprocess(info)),
     cached_result |-> info.result,
     should_process |-> FALSE]

NotDuplicate ==
    [is_duplicate |-> FALSE, processing_status |-> Undefined,
     last_processed |-> Undefined, quality_score |-> Undefined,
     should_reprocess |-> Undefined, cached_result |-> Undefined,
     should_process |-> TRUE]

\* [threw, value, cache, db]: the result, the cache as the call leaves it (a
\* durable-store hit is written to the cache) and the number of checkDatabase
\* calls made.
checkIfProcessed_no_cache(cache, item) ==
    LET fingerprint == generateContentFingerprint(item)
    IN IF fingerprint.threw
       THEN [threw |-> TRUE, value |-> Undefined, cache |-> cache, db |-> 0]
       ELSE [threw |-> FALSE, value |-> Def(NotDuplicate), cache |-> cache, db |-> 1]

checkIfProcessed_db_first(cache, item) ==
    LET fingerprint == generateContentFingerprint(item)
    IN IF fingerprint.threw
       THEN [threw |-> TRUE, value |-> Undefined, cache |-> cache, db |-> 0]
       ELSE LET key == Val(fingerprint.value).primary_fingerprint
                dbResult == checkDatabase(Val(fingerprint.value))
            IN IF dbResult.found
               THEN [threw |-> FALSE, value |-> Def(CheckResult(Val(dbResult.data))),
                     cache |-> Put(cache, key, Val(dbResult.data)), db |-> 1]
               ELSE IF key \in DOMAIN cache
               THEN [threw |-> FALSE, value |-> Def(CheckResult(cache[key])),
                     cache |-> cache, db |-> 1]
               ELSE [threw |-> FALSE, value |-> Def(NotDuplicate), cache |-> cache, db |-> 1]

checkIfProcessed(cache, item) ==
    LET fingerprint == generateContentFingerprint(item)
    IN IF fingerprint.threw
       THEN [threw |-> TRUE, value |-> Undefined, cache |-> cache, db |-> 0]
       ELSE LET key == Val(fingerprint.value).primary_fingerprint
                dbResult == checkDatabase(Val(fingerprint.value))
            IN IF key \in DOMAIN cache
               THEN [threw |-> FALSE, value |-> Def(CheckResult(cache[key])),
                     cache |-> cache, db |-> 0]
               ELSE IF dbResult.found
               THEN [threw |-> FALSE, value |-> Def(CheckResult(Val(dbResult.data))),
                     cache |-> Put(cache, key, Val(dbResult.data)), db |-> 1]
               ELSE [threw |-> FALSE, value |-> Def(NotDuplicate), cache |-> cache, db |-> 1]

\* The record markAsProcessing writes for a fingerprint at time t.
ProcessingInfo_old_version(fingerprint, content, t) ==
    [EmptyInfo EXCEPT
        !.content_hash = Def(fingerprint.primary_fingerprint),
        !.content_id = Def(fingerprint.metadata.post_id),
        !.processing_status = Def("processing"),
        !.started_processing = Def(t),
        !.processing_version = Def(VersionString(<<1, 0, 0>>)),
        !.content_metadata = Def(fingerprint.metadata),
        !.original_content = Def(content)]

ProcessingInfo(fingerprint, content, t) ==
    [EmptyInfo EXCEPT
        !.content_hash = Def(fingerprint.primary_fingerprint),
        !.content_id = Def(fingerprint.metadata.post_id),
        !.processing_status = Def("processing"),
        !.started_processing = Def(t),
        !.processing_version = Def(getCurrentProcessingVersion),
        !.content_metadata = Def(fingerprint.metadata),
        !.original_content = Def(content)]

\* The record markAsCompleted writes.
CompletedInfo_keeps_flag(fingerprint, result, qualityScore, t) ==
    [EmptyInfo EXCEPT
        !.content_hash = Def(fingerprint.primary_fingerprint),
        !.processing_status = Def("completed"),
        !.last_processed = Def(t),
        !.quality_score = Def(qualityScore),
        !.processing_version = Def(getCurrentProcessingVersion),
        !.result = Def(result),
        !.force_reprocess_flag = Def(TRUE),
        !.error_count = Def(0)]

CompletedInfo(fingerprint, result, qualityScore, t) ==
    [EmptyInfo EXCEPT
        !.content_hash = Def(fingerprint.primary_fingerprint),
        !.processing_status = Def("completed"),
        !.last_processed = Def(t),
        !.quality_score = Def(qualityScore),
        !.processing_version = Def(getCurrentProcessingVersion),
        !.result = Def(result),
        !.force_reprocess_flag = Def(FALSE),
        !.error_count = Def(0)]

\* forceReprocess: the records of the resolved hashes that the cache holds are
\* flagged; the others are skipped.
ForceReprocessed_all(cache, hashes, reason) ==
    [k \in DOMAIN cache |->
        [cache[k] EXCEPT !.force_reprocess_flag = Def(TRUE),
                         !.processing_status = Def("needs_reprocessing"),
                         !.reprocess_reason = Def(reason)]]

ForceReprocessed(cache, hashes, reason) ==
    [k \in DOMAIN cache |->
        IF k \in hashes
        THEN [cache[k] EXCEPT !.force_reprocess_flag = Def(TRUE),
                              !.processing_status = Def("needs_reprocessing"),
                              !.reprocess_reason = Def(reason)]
        ELSE cache[k]]

(***************************************************************************)
(* Router: IntelligentRouter.determineRoute.  fault names the phase whose  *)
(* computation raises when it runs ("none": no phase raises).  The value   *)
(* is [threw, value, phases, cache]: the decision, the phases that ran in  *)
(* order, and the cache as the call leaves it.                             *)
(***************************************************************************)
Phases == {"dedup", "complexity", "classification", "rules", "optimization"}

CacheDecision(duplicateCheck) ==
    [Decision("cache", "cached_result", "Duplicate content skipped: content_acceptable")
        EXCEPT !.cached_result = duplicateCheck.cached_result, !.skip_processing = TRUE]

Threw(phases, cache) ==
    [threw |-> TRUE, value |-> Undefined, phases |-> phases, cache |-> cache]
Returned(decision, phases, cache) ==
    [threw |-> FALSE, value |-> Def(decision), phases |-> phases, cache |-> cache]

\* The body of the try block.
TryDetermineRoute(content, contentType, options, cache, dailyCost, perf, fault) ==
    LET check == IF content.kind = "undefined"
                 THEN [threw |-> TRUE, value |-> Undefined, cache |-> cache, db |-> 0]
                 ELSE checkIfProcessed(cache,
                        [title |-> EmptyText, content |-> content,
                         url |-> options.source_url, tags |-> options.tags])
    IN IF check.threw \/ fault = "dedup" THEN Threw(<<"dedup">>, cache)
       ELSE LET duplicateCheck == Val(check.value) IN
       IF duplicateCheck.is_duplicate
          /\ ~Val(duplicateCheck.should_reprocess).should_reprocess
       THEN Returned(CacheDecision(duplicateCheck), <<"dedup">>, check.cache)
       ELSE IF fault = "complexity"
       THEN Threw(<<"dedup", "complexity">>, check.cache)
       ELSE IF fault = "classification"
       THEN Threw(<<"dedup", "complexity", "classification">>, check.cache)
       ELSE IF fault = "rules"
       THEN Threw(<<"dedup", "complexity", "classification", "rules">>, check.cache)
       ELSE IF fault = "optimization"
       THEN Threw(<<"dedup", "complexity", "classification", "rules", "optimization">>,
                  check.cache)
       ELSE LET complexity == analyzeComplexity(content)
                classification == classifyContent(content, contentType)
                routingDecision == applyRoutingRules(Length(content), complexity, classification)
            IN Returned(optimizeRouting(routingDecision, options, dailyCost, perf),
                        <<"dedup", "complexity", "classification", "rules", "optimization">>,
                        check.cache)

determineRoute_no_catch(content, contentType, options, cache, dailyCost, perf, fault) ==
    TryDetermineRoute(content, contentType, options, cache, dailyCost, perf, fault)

determineRoute(content, contentType, options, cache, dailyCost, perf, fault) ==
    LET attempt == TryDetermineRoute(content, contentType, options, cache, dailyCost, perf, fault)
    IN IF attempt.threw
       THEN Returned(getFallbackRoute(contentType), attempt.phases, attempt.cache)
       ELSE attempt

(***************************************************************************)
(* Model backends: LocalModelManager.process and CloudModelManager.process.*)
(* outcome is what the model server does with the call: "ok",              *)
(* "unreachable" (connection refused) or "timeout".  Both catch every      *)
(* failure and return a result with status "error".                        *)
(***************************************************************************)
LocalModelKeys == {"classification", "general_processing", "vision_analysis",
                   "document_processing", "complex_reasoning"}
CloudModelKeys == {"abacus_gpt4o", "abacus_claude", "abacus_claude_haiku"}

\* cost_per_1k_input and cost_per_1k_output, per token, in cost units.
CostPerToken(modelKey) ==
    CASE modelKey = "abacus_gpt4o" -> [input |-> 20, output |-> 60]
      [] modelKey = "abacus_claude" -> [input |-> 12, output |-> 60]
      [] OTHER -> [input |-> 1, output |-> 5]

\* Math.ceil(n / 4)
Tokens(n) == (n + 3) \div 4

calculateCost(modelKey, content, outputLength) ==
    Tokens(Length(content)) * CostPerToken(modelKey).input
        + Tokens(outputLength) * CostPerToken(modelKey).output

ErrorResult(routeType, modelKey, message, time) ==
    [status |-> "error", error |-> Def(message), result |-> Undefined,
     model |-> modelKey, processing_time |-> time, route_type |-> routeType,
     estimated_cost |-> Undefined]

SuccessResult(routeType, modelKey, replyLength, time, cost) ==
    [status |-> "success", error |-> Undefined, result |-> Def(replyLength),
     model |-> modelKey, processing_time |-> time, route_type |-> routeType,
     estimated_cost |-> Def(cost)]

FailureMessage(outcome) ==
    IF outcome = "unreachable" THEN "service is not running" ELSE "timeout exceeded"

InitBackends ==
    [loadedModels |-> {}, requestCount |-> << >>, costTracking |-> 0]

\* [result, backends]: loadModel warms a model up once and remembers it.
LocalProcess(b, modelKey, content, outcome, replyLength, time) ==
    IF modelKey \notin LocalModelKeys
    THEN [result |-> ErrorResult("local", modelKey, "Unknown model key", time), backends |-> b]
    ELSE IF outcome # "ok"
    THEN [result |-> ErrorResult("local", modelKey, FailureMessage(outcome), time),
          backends |-> b]
    ELSE [result |-> SuccessResult("local", modelKey, replyLength, time, 0),
          backends |-> [b EXCEPT !.loadedModels = @ \cup {modelKey}]]

\* updateUsageStats: per-model count, total time and total cost, and today's cost.
updateUsageStats(b, modelKey, processingTime, cost) ==
    LET existing == IF modelKey \in DOMAIN b.requestCount THEN b.requestCount[modelKey]
                    ELSE [count |-> 0, totalTime |-> 0, totalCost |-> 0]
        updated == [count |-> existing.count + 1,
                    totalTime |-> existing.totalTime + processingTime,
                    totalCost |-> existing.totalCost + cost]
    IN [b EXCEPT !.requestCount = Put(@, modelKey, updated),
                 !.costTracking = @ + cost]

CloudProcess(b, modelKey, content, outcome, replyLength, time) ==
    IF modelKey \notin CloudModelKeys
    THEN [result |-> ErrorResult("cloud", modelKey, "Unknown cloud model key", time),
          backends |-> b]
    ELSE IF outcome # "ok"
    THEN [result |-> ErrorResult("cloud", modelKey, FailureMessage(outcome), time),
          backends |-> b]
    ELSE LET cost == calculateCost(modelKey, content, replyLength)
         IN [result |-> SuccessResult("cloud", modelKey, replyLength, time, cost),
             backends |-> updateUsageStats(b, modelKey, time, cost)]

\* RouterController.executeRouting once the backend has answered; a destination
\* that is neither local nor cloud raises before any backend is called.
ExecutableRoute(routingDecision) == routingDecision.route_to \in {"local", "cloud"}

executeRouting(b, routingDecision, content, outcome, replyLength, time) ==
    IF routingDecision.route_to = "local"
    THEN LocalProcess(b, routingDecision.model, content, outcome, replyLength, time)
    ELSE CloudProcess(b, routingDecision.model, content, outcome, replyLength, time)

(***************************************************************************)
(* The inputs the specifications draw from.                                *)
(***************************************************************************)
Hello == [kind |-> "string", words |-> <<"hello">>, pad |-> 0, ws |-> 0]
\* "hello" with surrounding whitespace: the same text once normalized.
HelloSpaced == [Hello EXCEPT !.ws = 2]
\* A long text about trading: nine keyword words and 6000 filler characters.
TradingLong ==
    [kind |-> "string",
     words |-> <<"arbitrage", "trading", "tesla", "stock", "analysis", "strategy",
                 "market", "data", "code">>,
     pad |-> LongContentLength + 1000, ws |-> 0]
\* A content that is not a string (a JSON object or number).
ObjectContent == [kind |-> "object", words |-> <<>>, pad |-> 0, ws |-> 0]
\* An item without content.
NoContent == [kind |-> "undefined", words |-> <<>>, pad |-> 0, ws |-> 0]

PostUrl == [kind |-> "post", id |-> 123, query |-> FALSE]
PostUrlTracked == [PostUrl EXCEPT !.query = TRUE]

NoOptions == [source_url |-> NoUrl, tags |-> {}, cost_mode |-> "none", priority |-> "none",
              force_cloud |-> FALSE]
PostOptions == [source_url |-> PostUrl, tags |-> {"bitcoin"}, cost_mode |-> "optimize",
                priority |-> "high", force_cloud |-> FALSE]

Item(content, options) ==
    [title |-> EmptyText, content |-> content, url |-> options.source_url,
     tags |-> options.tags]

StoreItems == {Item(Hello, NoOptions), Item(HelloSpaced, NoOptions),
               Item(TradingLong, PostOptions)}
KeyOf(item) == Val(generateContentFingerprint(item).value).primary_fingerprint
StoreKeys == {KeyOf(item) : item \in StoreItems}

Results == {"summary"}
QualityScores == {QualityThreshold - 20, DefaultQuality}
Reasons == {"manual_request"}
Identifiers ==
    {[kind |-> "hash", key |-> Def(k), url |-> NoUrl] : k \in StoreKeys}
    \cup {[kind |-> "url", key |-> Undefined, url |-> u] : u \in {PostUrl, PostUrlTracked}}

\* The fingerprints an identifier stands for: the hash itself, or those of the
\* contents published at the url.
Denotes(identifier, key) ==
    IF identifier.kind = "hash" THEN identifier.key = Def(key)
    ELSE key[1] = extractPatreonPostId(identifier.url)

Faults == {"none"} \cup Phases
Outcomes == {"ok", "unreachable", "timeout"}
ReplyLengths == {400}
ProcessingTimes == {150}

RequestBodies ==
    {[content |-> Hello, content_type |-> "text", options |-> NoOptions],
     [content |-> HelloSpaced, content_type |-> "text", options |-> NoOptions],
     [content |-> TradingLong, content_type |-> "text", options |-> PostOptions],
     [content |-> Hello, content_type |-> "image", options |-> NoOptions],
     [content |-> ObjectContent, content_type |-> "text", options |-> NoOptions],
     [content |-> EmptyText, content_type |-> "text", options |-> NoOptions]}

\* The lifecycle status of a fingerprint: "new" until the store holds a record.
StatusOf(cache, key) ==
    IF key \in DOMAIN cache THEN Val(cache[key].processing_status) ELSE "new"

\* db and saves count the checkDatabase and saveToDatabase calls of the operation,
\* raised tells whether it rejected, hashes is what findContentByIdentifier resolved.
NoOp == [op |-> "none", key |-> Undefined, pre |-> "new", reason |-> Undefined,
         targets |-> {}, check |-> Undefined, db |-> 0, saves |-> 0, raised |-> FALSE,
         hashes |-> {}]

IdleReq ==
    [pc |-> "idle", n |-> 0, body |-> Undefined, fault |-> "none", raised |-> FALSE,
     decision |-> Undefined, phases |-> <<>>, duplicate |-> FALSE, completed |-> FALSE,
     result |-> Undefined, metrics |-> Undefined, code |-> 0, trace |-> <<>>]

IdleBatch ==
    [pc |-> "idle", items |-> <<>>, batchSize |-> 0, i |-> 0, group |-> <<>>,
     stage |-> <<>>, decision |-> <<>>, slot |-> <<>>, results |-> <<>>, groups |-> <<>>]

\* POST /batch bodies: up to MaxItems items, and options.batch_size absent, zero,
\* negative or up to MaxBatchOpt.
BatchContents == {Hello, TradingLong}
BatchItem(id, content) == [id |-> id, content |-> content, content_type |-> "text"]
BatchLists ==
    UNION {{[k \in 1..n |-> BatchItem(k, c[k])] : c \in [1..n -> BatchContents]}
            : n \in 0..MaxItems}
BatchSizeOptions == {Undefined} \cup {Def(b) : b \in -1..MaxBatchOpt}

\* duplicate_management...status_transitions of router_config.json.
StatusTransitions ==
    {<<"new", "processing">>, <<"processing", "completed">>, <<"processing", "failed">>,
     <<"completed", "needs_reprocessing">>, <<"failed", "processing">>}


(***************************************************************************)
(* The manager's operations, called with drawn arguments.                  *)
(***************************************************************************)
MarkAsProcessing_if_absent(limit) ==
    /\ now < limit
    /\ \E item \in StoreItems :
        LET fingerprint == Val(generateContentFingerprint(item).value)
            key == fingerprint.primary_fingerprint
        IN /\ processedContent' =
                IF key \in DOMAIN processedContent THEN processedContent
                ELSE Put(processedContent, key,
                         ProcessingInfo(fingerprint, item.content, now))
           /\ saveToDatabase(processedContent'[key])
           /\ lastOp' = [NoOp EXCEPT !.op = "markAsProcessing", !.key = Def(key),
                                     !.pre = StatusOf(processedContent, key),
                                     !.saves = 1,
                                     !.raised = ~saveToDatabase(processedContent'[key])]
    /\ now' = now + 1
    /\ UNCHANGED <<pureVars, completedFps, req, backends, batch, router, engine>>

MarkAsProcessing(limit) ==
    /\ now < limit
    /\ \E item \in StoreItems :
        LET fingerprint == Val(generateContentFingerprint(item).value)
            key == fingerprint.primary_fingerprint
        IN /\ processedContent' = Put(processedContent, key,
                                      ProcessingInfo(fingerprint, item.content, now))
           /\ saveToDatabase(processedContent'[key])
           /\ lastOp' = [NoOp EXCEPT !.op = "markAsProcessing", !.key = Def(key),
                                     !.pre = StatusOf(processedContent, key),
                                     !.saves = 1,
                                     !.raised = ~saveToDatabase(processedContent'[key])]
    /\ now' = now + 1
    /\ UNCHANGED <<pureVars, completedFps, req, backends, batch, router, engine>>

MarkAsCompleted(limit) ==
    /\ now < limit
    /\ \E item \in StoreItems, result \in Results, qualityScore \in QualityScores :
        LET fingerprint == Val(generateContentFingerprint(item).value)
            key == fingerprint.primary_fingerprint
        IN /\ processedContent' = Put(processedContent, key,
                                      CompletedInfo(fingerprint, result, qualityScore, now))
           /\ saveToDatabase(processedContent'[key])
           /\ lastOp' = [NoOp EXCEPT !.op = "markAsCompleted", !.key = Def(key),
                                     !.pre = StatusOf(processedContent, key),
                                     !.saves = 1,
                                     !.raised = ~saveToDatabase(processedContent'[key])]
           /\ completedFps' = completedFps \cup {key}
    /\ now' = now + 1
    /\ UNCHANGED <<pureVars, req, backends, batch, router, engine>>

ForceReprocess ==
    /\ \E identifier \in Identifiers, reason \in Reasons :
        LET contentHashes == findContentByIdentifier(identifier)
        IN /\ processedContent' = ForceReprocessed(processedContent, contentHashes, reason)
           /\ lastOp' = [NoOp EXCEPT !.op = "forceReprocess",
                                     !.reason = Def(reason),
                                     !.hashes = contentHashes,
                                     !.saves = Cardinality(contentHashes
                                                    \cap DOMAIN processedContent),
                                     !.raised =
                                        \E k \in contentHashes \cap DOMAIN processedContent :
                                            ~saveToDatabase(processedContent'[k]),
                                     !.targets =
                                        {k \in DOMAIN processedContent :
                                            /\ Denotes(identifier, k)
                                            /\ StatusOf(processedContent, k) = "completed"}]
           /\ completedFps' = {k \in completedFps : ~Denotes(identifier, k)}
    /\ UNCHANGED <<pureVars, now, req, backends, batch, router, engine>>

CheckIfProcessed ==
    /\ \E item \in StoreItems :
        LET check == checkIfProcessed(processedContent, item)
        IN /\ processedContent' = check.cache
           /\ lastOp' = [NoOp EXCEPT !.op = "checkIfProcessed", !.key = Def(KeyOf(item)),
                                     !.pre = StatusOf(processedContent, KeyOf(item)),
                                     !.check = check.value,
                                     !.db = check.db]
    /\ UNCHANGED <<pureVars, now, completedFps, req, backends, batch, router, engine>>

(***************************************************************************)
(* WorkflowEngine.  A workflow name is the tuple of the parts of its        *)
(* dotted name ("a.b" is <<"a", "b">>); no key of the configuration holds  *)
(* a dot.  An object is a function from its keys, read with Prop.           *)
(***************************************************************************)
\* obj[key] of JavaScript: undefined for a key the object does not have.
Prop(obj, key) == IF key \in DOMAIN obj THEN Def(obj[key]) ELSE Undefined

\* workflow_orchestration of workflow_config.json.
WorkflowOrchestration ==
    [scraping_workflows |->
        [patreon_monitor |->
            [schedule |-> "*/5 * * * *",
             steps |-> <<"extract_new_content", "classify_content_type",
                         "route_for_processing", "extract_insights", "store_results",
                         "trigger_alerts_if_needed">>],
         deep_analysis |->
            [schedule |-> "0 2 * * *",
             steps |-> <<"retrieve_recent_content", "batch_process_with_advanced_models",
                         "generate_comprehensive_reports",
                         "identify_trends_and_patterns">>]],
     dynamic_workflows |->
        [user_triggered |->
            [search_and_analyze |->
                <<"parse_user_query", "determine_search_strategy",
                  "execute_semantic_search", "route_results_for_analysis",
                  "synthesize_final_response">>],
         automated_discovery |->
            [trading_opportunity_detection |->
                <<"scan_recent_content", "filter_for_trading_signals",
                  "route_to_advanced_analysis", "validate_opportunities",
                  "generate_actionable_insights">>]]]

\* The constructor: two empty Maps.
InitEngine == [workflows |-> << >>, activeJobs |-> {}, runs |-> << >>]

\* Every entry of every category is registered as "<category>.<entry>".
loadWorkflowTemplates(templates) ==
    LET names == UNION {{<<c, w>> : w \in DOMAIN templates[c]} : c \in DOMAIN templates}
    IN [n \in names |-> templates[n[1]][n[2]]]

\* The scraping workflows that carry a schedule get a cron job.
scheduleAutomaticWorkflows(config) ==
    {w \in DOMAIN config.scraping_workflows :
        IsDefined(Prop(config.scraping_workflows[w], "schedule"))}

WorkflowThrew(workflowName, message) ==
    [workflow |-> workflowName, threw |-> TRUE, message |-> Def(message),
     status |-> Undefined, steps_completed |-> << >>, result |-> Undefined]

WorkflowCompleted(workflowName, steps, result) ==
    [workflow |-> workflowName, threw |-> FALSE, message |-> Undefined,
     status |-> Def("completed"), steps_completed |-> steps, result |-> Def(result)]

\* executeStep hands its input on: the steps leave the data as it was.
executeSteps(steps, currentData) == currentData

BusinessLogicNames ==
    {<<"scraping_workflows", "patreon_monitor">>, <<"scraping_workflows", "deep_analysis">>,
     <<"dynamic_workflows", "user_triggered", "search_and_analyze">>}

execute(workflows, workflowName, inputData) ==
    IF workflowName \notin DOMAIN workflows
    THEN WorkflowThrew(workflowName, "Workflow not found")
    ELSE LET workflow == workflows[workflowName]
         IN IF IsDefined(Prop(workflow, "steps"))
            THEN WorkflowCompleted(workflowName, workflow.steps,
                                   executeSteps(workflow.steps, inputData))
            ELSE IF workflowName \in BusinessLogicNames
            THEN WorkflowCompleted(workflowName, << >>, workflowName[Len(workflowName)])
            ELSE WorkflowThrew(workflowName, "No business logic defined for workflow")

\* The router's constructor: two empty Maps.
InitRouterStats == [performanceHistory |-> << >>, costTracking |-> 0]

RulesIdle ==
    /\ router = InitRouterStats
    /\ engine = InitEngine
    /\ processedContent = << >>
    /\ now = 0
    /\ lastOp = NoOp
    /\ completedFps = {}
    /\ req = IdleReq
    /\ backends = InitBackends
    /\ batch = IdleBatch

InitStore ==
    /\ ruleIn = Undefined
    /\ ruleOut = Undefined
    /\ RulesIdle

NextStore ==
    \/ MarkAsProcessing(MaxClock)
    \/ MarkAsCompleted(MaxClock)
    \/ ForceReprocess
    \/ CheckIfProcessed

SpecStore == InitStore /\ [][NextStore]_vars

(***************************************************************************)
(* POST /route of RouterController: the routing decision, the call of the  *)
(* chosen backend (where the handler waits), then the metrics and the      *)
(* response.  The router keeps no latency or cost history of its own:      *)
(* nothing calls updatePerformanceHistory or writes its costTracking.      *)
(***************************************************************************)
performanceHistory == router.performanceHistory
getDailyCost == router.costTracking

logMetrics(routingDecision, result) ==
    [route |-> <<routingDecision.route_to, routingDecision.model>>,
     latency |-> result.processing_time,
     cost |-> IF IsDefined(result.estimated_cost) THEN Val(result.estimated_cost) ELSE 0,
     success |-> result.status = "success"]

\* The request arrives; without content it is answered 400, else the router decides.
RouteDetermine(limit) ==
    /\ req.pc \in {"idle", "done"}
    /\ req.n < limit
    /\ \E body \in RequestBodies, fault \in Faults :
        IF Length(body.content) = 0 /\ body.content.kind = "string"
        THEN /\ req' = [IdleReq EXCEPT !.pc = "done", !.n = req.n + 1, !.body = Def(body),
                                       !.code = 400, !.trace = <<"respond">>]
             /\ UNCHANGED processedContent
        ELSE LET r == determineRoute(body.content, body.content_type, body.options,
                                     processedContent, getDailyCost, performanceHistory, fault)
             IN /\ req' = [IdleReq EXCEPT !.pc = "routed", !.n = req.n + 1,
                              !.body = Def(body), !.fault = fault, !.raised = r.threw,
                              !.decision = r.value, !.phases = r.phases,
                              !.duplicate =
                                    (body.content.kind = "string"
                                     /\ KeyOf(Item(body.content, body.options))
                                            \in DOMAIN processedContent),
                              !.completed =
                                    (body.content.kind = "string"
                                     /\ KeyOf(Item(body.content, body.options))
                                            \in completedFps),
                              !.trace = <<"determineRoute">>]
                /\ processedContent' = r.cache
    /\ UNCHANGED <<pureVars, now, lastOp, completedFps, backends, batch, router, engine>>

\* executeRouting: the backend is called, or the destination is unknown and the
\* handler answers 500 "Routing failed".
RouteExecute_metrics_first ==
    /\ req.pc = "routed"
    /\ IF ~req.raised /\ ExecutableRoute(Val(req.decision))
       THEN req' = [req EXCEPT !.pc = "backend",
                               !.metrics = Def([route |-> <<Val(req.decision).route_to,
                                                            Val(req.decision).model>>,
                                                latency |-> 0, cost |-> 0,
                                                success |-> FALSE]),
                               !.trace = @ \o <<"logMetrics", "executeRouting">>]
       ELSE req' = [req EXCEPT !.pc = "done", !.code = 500,
                               !.trace = @ \o <<"executeRouting", "respond">>]
    /\ UNCHANGED <<pureVars, storeVars, backends, batch, router, engine>>

RouteExecute ==
    /\ req.pc = "routed"
    /\ IF ~req.raised /\ ExecutableRoute(Val(req.decision))
       THEN req' = [req EXCEPT !.pc = "backend", !.trace = Append(@, "executeRouting")]
       ELSE req' = [req EXCEPT !.pc = "done", !.code = 500,
                               !.trace = @ \o <<"executeRouting", "respond">>]
    /\ UNCHANGED <<pureVars, storeVars, backends, batch, router, engine>>

\* The backend answers: metrics are logged and the response is sent.
RouteBackendReturn ==
    /\ req.pc = "backend"
    /\ \E outcome \in Outcomes, replyLength \in ReplyLengths, time \in ProcessingTimes :
        LET x == executeRouting(backends, Val(req.decision), Val(req.body).content,
                                outcome, replyLength, time)
        IN /\ backends' = x.backends
           /\ req' = [req EXCEPT !.pc = "done", !.code = 200, !.result = Def(x.result),
                         !.metrics = Def(logMetrics(Val(req.decision), x.result)),
                         !.trace = @ \o <<"process", "logMetrics", "respond">>]
    /\ UNCHANGED <<pureVars, storeVars, batch, router, engine>>

NextRouter ==
    \/ RouteDetermine(MaxRequests)
    \/ RouteExecute
    \/ RouteBackendReturn
    \/ MarkAsProcessing(MaxRouterClock)
    \/ (batch.pc = "idle" /\ MarkAsCompleted(MaxRouterClock))
    \/ ForceReprocess

SpecRouter == InitStore /\ [][NextRouter]_vars

(***************************************************************************)
(* RouterController.processBatch.  The items of a group start together:    *)
(* map() calls every handler, and each runs up to its first await inside   *)
(* determineRoute.  A handler then resumes when its routing is decided,    *)
(* and again when its backend answers; Promise.all resumes the loop when   *)
(* every handler of the group has returned.                                *)
(***************************************************************************)
\* options.batch_size || 10
EffectiveBatchSize_unset(batchSizeOption) == 1

EffectiveBatchSize(batchSizeOption) ==
    IF IsDefined(batchSizeOption) /\ Val(batchSizeOption) # 0
    THEN Val(batchSizeOption) ELSE DefaultBatchSize

\* Array.prototype.slice's index: negative counts from the end, clamped to 0..len.
SliceIndex(len, k) == IF k < 0 THEN Max(len + k, 0) ELSE Min(k, len)

Slice_to_end(len, start, end) ==
    LET from == SliceIndex(len, start)
    IN [j \in 1..(len - from) |-> from + j]

\* The 1-based positions of items.slice(start, end), for 0-based start and end.
Slice(len, start, end) ==
    LET from == SliceIndex(len, start)
        to == SliceIndex(len, end)
    IN [j \in 1..Max(to - from, 0) |-> from + j]

\* The sizes of the groups the loop forms before it has run `fuel` iterations.
RECURSIVE GroupSizes(_, _, _, _)
GroupSizes(len, batchSize, i, fuel) ==
    IF ~(i < len) \/ fuel = 0 THEN <<>>
    ELSE <<Len(Slice(len, i, i + batchSize))>>
            \o GroupSizes(len, batchSize, i + batchSize, fuel - 1)

FailedItem(item, message) ==
    [id |-> item.id, status |-> "failed", error |-> Def(message),
     routing_decision |-> Undefined, result |-> Undefined]
SucceededItem(item, routingDecision, result) ==
    [id |-> item.id, status |-> "success", error |-> Undefined,
     routing_decision |-> Def(routingDecision), result |-> Def(result)]

\* Promise.all: every handler of the group has returned.
GroupSettled(b) ==
    \A j \in DOMAIN b.group : b.stage[b.group[j]] = "done"

\* The loop test and, when it passes, the slice and the map that starts the group.
LoopFrom(b) ==
    IF b.i < Len(b.items)
    THEN LET group == Slice(Len(b.items), b.i, b.i + b.batchSize)
         IN [b EXCEPT !.group = group,
                      !.groups = Append(@, Len(group)),
                      !.stage = [k \in DOMAIN b.stage |->
                                    IF \E j \in DOMAIN group : group[j] = k
                                    THEN "routing" ELSE b.stage[k]]]
    ELSE [b EXCEPT !.pc = "done", !.group = <<>>]

\* POST /batch calls processBatch, which runs to the first group's await.
BatchStart ==
    /\ batch.pc = "idle"
    /\ req.pc \in {"idle", "done"}
    /\ \E items \in BatchLists, batchSizeOption \in BatchSizeOptions :
        batch' = LoopFrom([IdleBatch EXCEPT
                              !.pc = "running", !.items = items,
                              !.batchSize = EffectiveBatchSize(batchSizeOption),
                              !.stage = [k \in DOMAIN items |-> "pending"],
                              !.decision = [k \in DOMAIN items |-> Undefined],
                              !.slot = [k \in DOMAIN items |-> Undefined]])
    /\ UNCHANGED <<pureVars, storeVars, req, backends, router, engine>>

\* A handler resumes with its routing decision and calls executeRouting, which
\* either calls a backend or raises; the raise is caught as the item's result.
ItemRouted ==
    /\ batch.pc = "running"
    /\ \E k \in DOMAIN batch.items :
        /\ batch.stage[k] = "routing"
        /\ LET item == batch.items[k]
               r == determineRoute(item.content, item.content_type, NoOptions,
                                   processedContent, getDailyCost, performanceHistory,
                                   "none")
           IN /\ processedContent' = r.cache
              /\ IF ExecutableRoute(Val(r.value))
                 THEN batch' = [batch EXCEPT !.stage[k] = "backend", !.decision[k] = r.value]
                 ELSE batch' = [batch EXCEPT
                                  !.stage[k] = "done", !.decision[k] = r.value,
                                  !.slot[k] = Def(FailedItem(item,
                                                "Unknown routing destination"))]
    /\ UNCHANGED <<pureVars, now, lastOp, completedFps, req, backends, router, engine>>

\* A backend answers a handler, which returns the item's result.
ItemBackendReturn ==
    /\ batch.pc = "running"
    /\ \E k \in DOMAIN batch.items, outcome \in Outcomes, replyLength \in ReplyLengths,
          time \in ProcessingTimes :
        /\ batch.stage[k] = "backend"
        /\ LET item == batch.items[k]
               x == executeRouting(backends, Val(batch.decision[k]), item.content,
                                   outcome, replyLength, time)
           IN /\ backends' = x.backends
              /\ batch' = [batch EXCEPT
                              !.stage[k] = "done",
                              !.slot[k] = Def(SucceededItem(item, Val(batch.decision[k]),
                                                            x.result))]
    /\ UNCHANGED <<pureVars, storeVars, req, router, engine>>

\* Promise.all resolves: the group's results are appended in item order and the
\* loop goes on with the next group, or processBatch returns.
GroupAwaited(spins) ==
    /\ batch.pc = "running"
    /\ GroupSettled(batch)
    /\ batch.i > -spins
    /\ batch' = LoopFrom([batch EXCEPT
                            !.results = @ \o [j \in DOMAIN batch.group |->
                                                Val(batch.slot[batch.group[j]])],
                            !.i = @ + batch.batchSize])
    /\ UNCHANGED <<pureVars, storeVars, req, backends, router, engine>>

\* One batch per behaviour; contents may have been marked completed by the time
\* it arrives.
NextBatch ==
    \/ BatchStart
    \/ ItemRouted
    \/ ItemBackendReturn
    \/ GroupAwaited(MaxSpins)
    \/ (batch.pc = "idle" /\ MarkAsCompleted(MaxRouterClock))

SpecBatch == InitStore /\ [][NextBatch]_vars

\* The item a request body stands for, and whether a phase of its routing failed.
ReqItem == Item(Val(req.body).content, Val(req.body).options)
Routed == req.pc \in {"routed", "backend", "done"} /\ req.code # 400
PhaseFailed ==
    \/ Val(req.body).content.kind # "string"
    \/ \E i \in DOMAIN req.phases : req.phases[i] = req.fault

(***************************************************************************)
(* C3.  Dedup short-circuit: while a fingerprint is marked completed and   *)
(* no forceReprocess has followed, checkIfProcessed for any content with   *)
(* that primary fingerprint reports is_duplicate with should_reprocess     *)
(* false, and determineRoute for it returns the cache decision after the   *)
(* dedup check alone; the request never reaches a model.                   *)
(***************************************************************************)
C3_DedupShortCircuit ==
    /\ \A item \in StoreItems :
          KeyOf(item) \in completedFps =>
            LET check == checkIfProcessed(processedContent, item)
                route == determineRoute(item.content, "text",
                                        [NoOptions EXCEPT !.source_url = item.url,
                                                          !.tags = item.tags],
                                        processedContent, getDailyCost,
                                        performanceHistory, "none")
            IN /\ ~check.threw
               /\ Val(check.value).is_duplicate
               /\ ~Val(Val(check.value).should_reprocess).should_reprocess
               /\ ~route.threw
               /\ Val(route.value).route_to = "cache"
               /\ Val(route.value).skip_processing
               /\ route.phases = <<"dedup">>
    /\ (Routed /\ req.completed /\ req.fault # "dedup") =>
          /\ Val(req.decision).route_to = "cache"
          /\ req.phases = <<"dedup">>
          /\ req.pc # "backend"
          /\ req.result = Undefined

C3_Witness ==
    /\ req.pc = "done"
    /\ req.completed
    /\ req.fault = "none"
    /\ Val(req.body).content = HelloSpaced
    /\ Val(req.decision).route_to = "cache"

(***************************************************************************)
(* C4.  The router records outcomes: when a request for content the store  *)
(* does not hold has been routed and executed successfully, the store      *)
(* holds a completed record for its primary fingerprint, and a later check *)
(* of equivalent content reports a duplicate.                              *)
(***************************************************************************)
C4_OutcomeRecorded ==
    [][(/\ req.pc = "backend"
        /\ req'.pc = "done"
        /\ ~req.duplicate
        /\ Val(req.body).content.kind = "string"
        /\ Val(req'.result).status = "success")
          => /\ StatusOf(processedContent', KeyOf(ReqItem)) = "completed"
             /\ Val(checkIfProcessed(processedContent', ReqItem).value).is_duplicate]_vars

(***************************************************************************)
(* C34.  Every decision determineRoute returns can be executed by the      *)
(* caller: POST /route answers it with a result and never with 500         *)
(* 'Routing failed', and a duplicate-skip decision (route_to cache,        *)
(* skip_processing) is answered with the cached result.                    *)
(***************************************************************************)
C34_DecisionsExecutable ==
    (req.pc = "done" /\ IsDefined(req.decision)) =>
        /\ req.code = 200
        /\ IsDefined(req.result)
        /\ Val(req.decision).route_to = "cache" =>
                req.result = Val(req.decision).cached_result

(***************************************************************************)
(* C35.  determineRoute returns the cache decision only for content whose  *)
(* record is completed and holds a stored result: content whose record is  *)
(* still in status processing is never answered with a cache decision      *)
(* without cached_result.                                                  *)
(***************************************************************************)
C35_CacheOnlyCompleted ==
    (Routed /\ Val(req.decision).route_to = "cache") =>
        /\ req.completed
        /\ IsDefined(Val(req.decision).cached_result)

(***************************************************************************)
(* C7.  determineRoute never raises and always returns a decision; when a  *)
(* phase fails (dedup check, complexity analysis, classification, rule     *)
(* matching or optimization) the decision is the fixed fallback            *)
(* local/general_processing.                                               *)
(***************************************************************************)
C7_AlwaysDecides ==
    Routed =>
        /\ ~req.raised
        /\ IsDefined(req.decision)
        /\ PhaseFailed =>
              /\ req.decision = Def(getFallbackRoute(Val(req.body).content_type))
              /\ Val(req.decision).route_to = "local"
              /\ Val(req.decision).model = "general_processing"

C7_Witness ==
    /\ req.pc = "backend"
    /\ req.fault = "classification"
    /\ PhaseFailed
    /\ Val(req.decision).model = "general_processing"

(***************************************************************************)
(* C5.  Every status change of a processing record follows one of the      *)
(* lifecycle edges new -> processing, processing -> completed,             *)
(* processing -> failed, completed -> needs_reprocessing,                  *)
(* failed -> processing.                                                   *)
(***************************************************************************)
C5_LifecycleEdges ==
    [][\A k \in StoreKeys :
          StatusOf(processedContent, k) # StatusOf(processedContent', k)
            => <<StatusOf(processedContent, k), StatusOf(processedContent', k)>>
                    \in StatusTransitions]_vars

(***************************************************************************)
(* C6.  forceReprocess(identifier, reason) on a store that holds a         *)
(* completed record for the fingerprint of the identifier leaves the       *)
(* record needs_reprocessing, flagged and with the reason, so that         *)
(* shouldReprocess answers force_reprocess_requested for it.               *)
(***************************************************************************)
C6_ForceReprocessMarks ==
    lastOp.op = "forceReprocess" =>
        \A k \in lastOp.targets :
            /\ processedContent[k].processing_status = Def("needs_reprocessing")
            /\ processedContent[k].force_reprocess_flag = Def(TRUE)
            /\ processedContent[k].reprocess_reason = lastOp.reason
            /\ shouldReprocess(processedContent[k]) = Verdict(TRUE, "force_reprocess_requested")

(***************************************************************************)
(* SpecRules: the pure decision functions applied to drawn arguments.      *)
(***************************************************************************)
RuleLengths == {0, 5, ShortLength - 1, ShortLength, LongLength - 1, LongLength,
                LongContentLength + 1000}
RuleScores == {0, SimpleScore - 1, SimpleScore, TradingScore, TradingScore + 1,
               HighScore - 1, HighScore, MaxScore}
RuleCategories == SUBSET {"trading_content", "technical_content"}
ContentTypes == {"text", "image", "video"}

\* Versions a record can carry: those of releases up to the current major.
RecordedVersions == {<<1, 0, 0>>, <<1, 10, 0>>, <<2, 0, 0>>, <<2, 1, 0>>}

RuleCalls ==
    {[fn |-> "applyRoutingRules", len |-> l, score |-> sc, categories |-> cats,
      content_type |-> t, info |-> EmptyInfo, version |-> Undefined] :
        l \in RuleLengths, sc \in RuleScores, cats \in RuleCategories, t \in ContentTypes}

PolicyInfos ==
    {[EmptyInfo EXCEPT !.force_reprocess_flag = flag, !.status = st,
                       !.error_count = ec, !.quality_score = q,
                       !.content_metadata = md] :
        flag \in {Undefined, Def(TRUE), Def(FALSE)},
        st \in {Undefined, Def("failed"), Def("completed")},
        ec \in {Undefined, Def(0), Def(MaxErrorCount - 1), Def(MaxErrorCount)},
        q \in {Undefined, Def(QualityThreshold - 20), Def(QualityThreshold), Def(DefaultQuality)},
        md \in {Undefined, Def([tags |-> {}]), Def([tags |-> {"bitcoin"}]),
                Def([tags |-> {"news"}])}}

PolicyCalls ==
    {[fn |-> "shouldReprocess", len |-> 0, score |-> 0, categories |-> {},
      content_type |-> "text",
      info |-> [i EXCEPT !.processing_version =
                    IF IsDefined(v) THEN Def(VersionString(Val(v))) ELSE Undefined],
      version |-> v] :
        i \in PolicyInfos, v \in {Undefined} \cup {Def(x) : x \in RecordedVersions}}

InitRules ==
    /\ ruleIn \in RuleCalls \cup PolicyCalls
    /\ ruleOut = Undefined
    /\ RulesIdle

CallApplyRoutingRules ==
    /\ ruleIn.fn = "applyRoutingRules"
    /\ ruleOut = Undefined
    /\ ruleOut' = Def(applyRoutingRules(ruleIn.len,
                        [complexity_score |-> ruleIn.score],
                        [content_type |-> ruleIn.content_type,
                         categories |-> ruleIn.categories]))
    /\ UNCHANGED <<ruleIn, storeVars, req, backends, batch, router, engine>>

CallShouldReprocess ==
    /\ ruleIn.fn = "shouldReprocess"
    /\ ruleOut = Undefined
    /\ ruleOut' = Def(shouldReprocess(ruleIn.info))
    /\ UNCHANGED <<ruleIn, storeVars, req, backends, batch, router, engine>>

NextRules == CallApplyRoutingRules \/ CallShouldReprocess

SpecRules == InitRules /\ [][NextRules]_vars

(***************************************************************************)
(* C1.  applyRoutingRules returns the outcome of the first rule that       *)
(* matches, in the order image, trading and complexity > 0.7, short and    *)
(* simple, long and complexity < 0.8, complexity >= 0.8, default; every    *)
(* decision carries a non-empty reasoning.                                 *)
(***************************************************************************)
C1_Rule1 == ruleIn.content_type = "image"
C1_Rule2 == "trading_content" \in ruleIn.categories /\ ruleIn.score > 70
C1_Rule3 == ruleIn.len < 500 /\ ruleIn.score < 30
C1_Rule4 == ruleIn.len >= 2000 /\ ruleIn.score < 80
C1_Rule5 == ruleIn.score >= 80

C1_Is(d, routeTo, model, fallback) ==
    d.route_to = routeTo /\ d.model = model /\ d.fallback_to_cloud = fallback

C1_FirstMatch ==
    (ruleIn.fn = "applyRoutingRules" /\ IsDefined(ruleOut)) =>
        LET d == Val(ruleOut) IN
        /\ d.reasoning # ""
        /\ C1_Rule1 => C1_Is(d, "local", "vision_analysis", FALSE)
        /\ (~C1_Rule1 /\ C1_Rule2) => C1_Is(d, "cloud", "abacus_gpt4o", FALSE)
        /\ (~C1_Rule1 /\ ~C1_Rule2 /\ C1_Rule3) => C1_Is(d, "local", "classification", FALSE)
        /\ (~C1_Rule1 /\ ~C1_Rule2 /\ ~C1_Rule3 /\ C1_Rule4)
                => C1_Is(d, "local", "complex_reasoning", TRUE)
        /\ (~C1_Rule1 /\ ~C1_Rule2 /\ ~C1_Rule3 /\ ~C1_Rule4 /\ C1_Rule5)
                => C1_Is(d, "cloud", "abacus_claude", FALSE)
        /\ (~C1_Rule1 /\ ~C1_Rule2 /\ ~C1_Rule3 /\ ~C1_Rule4 /\ ~C1_Rule5)
                => C1_Is(d, "local", "general_processing", FALSE)

\* A long trading text of complexity 0.71: rule 2 pre-empts rules 4 and 6.
C1_Witness ==
    /\ ruleIn.fn = "applyRoutingRules" /\ IsDefined(ruleOut)
    /\ ~C1_Rule1 /\ C1_Rule2 /\ C1_Rule4
    /\ Val(ruleOut).model = "abacus_gpt4o"

(***************************************************************************)
(* C2.  shouldReprocess is an ordered decision list: force flag, then      *)
(* failed with error_count < 3, then quality < 0.7 with a newer version,   *)
(* then priority tags on a version older than 2.0.0, else                  *)
(* content_acceptable.  A record with the flag set, status failed and      *)
(* error_count 0 yields force_reprocess_requested.                         *)
(***************************************************************************)
\* Version order by components, not by the strings.
C2_Older(v, w) ==
    \/ v[1] < w[1]
    \/ v[1] = w[1] /\ v[2] < w[2]
    \/ v[1] = w[1] /\ v[2] = w[2] /\ v[3] < w[3]

C2_Force == ruleIn.info.force_reprocess_flag = Def(TRUE)
C2_Retry == ruleIn.info.status = Def("failed") /\ IsDefined(ruleIn.info.error_count)
            /\ Val(ruleIn.info.error_count) < 3
C2_Quality == /\ IsDefined(ruleIn.info.quality_score)
              /\ Val(ruleIn.info.quality_score) < 70
              /\ IsDefined(ruleIn.version) /\ C2_Older(Val(ruleIn.version), <<2, 0, 0>>)
C2_Priority == /\ IsDefined(ruleIn.info.content_metadata)
               /\ "bitcoin" \in Val(ruleIn.info.content_metadata).tags
               /\ IsDefined(ruleIn.version) /\ C2_Older(Val(ruleIn.version), <<2, 0, 0>>)

C2_DecisionList ==
    (ruleIn.fn = "shouldReprocess" /\ IsDefined(ruleOut)) =>
        LET r == Val(ruleOut) IN
        /\ C2_Force => r = Verdict(TRUE, "force_reprocess_requested")
        /\ (~C2_Force /\ C2_Retry) => r = Verdict(TRUE, "retry_failed_processing")
        /\ (~C2_Force /\ ~C2_Retry /\ C2_Quality)
                => r = Verdict(TRUE, "quality_improvement_available")
        /\ (~C2_Force /\ ~C2_Retry /\ ~C2_Quality /\ C2_Priority)
                => r = Verdict(TRUE, "priority_tags_detected")
        /\ (~C2_Force /\ ~C2_Retry /\ ~C2_Quality /\ ~C2_Priority)
                => r = Verdict(FALSE, "content_acceptable")

\* The flag set on a failed record with error_count 0: rule 1 pre-empts rule 2.
C2_Witness ==
    /\ ruleIn.fn = "shouldReprocess" /\ IsDefined(ruleOut)
    /\ C2_Force /\ C2_Retry /\ Val(ruleIn.info.error_count) = 0
    /\ Val(ruleOut).reason = "force_reprocess_requested"

(***************************************************************************)
(* C8.  processBatch returns exactly one result per input item, in item    *)
(* order, whatever fails per item; the groups it forms are those of the    *)
(* loop, and with the default batch size 25 items form groups of 10, 10    *)
(* and 5.                                                                  *)
(***************************************************************************)
InFlight == {k \in DOMAIN batch.items : batch.stage[k] \in {"routing", "backend"}}
ItemFailed(r) ==
    \/ r.status = "failed"
    \/ IsDefined(r.result) /\ Val(r.result).status = "error"

C8_BatchResults ==
    /\ batch.pc = "done" =>
          /\ Len(batch.results) = Len(batch.items)
          /\ \A k \in DOMAIN batch.items :
                /\ batch.results[k].id = batch.items[k].id
                /\ batch.results[k].status \in {"success", "failed"}
          /\ batch.groups = GroupSizes(Len(batch.items), batch.batchSize, 0,
                                       Len(batch.items))
    /\ batch.pc # "idle" =>
          LET defaultSize == EffectiveBatchSize(Undefined)
          IN /\ GroupSizes(25, defaultSize, 0, 25) = <<10, 10, 5>>
             /\ (batch.batchSize = defaultSize /\ Len(batch.items) > 0)
                    => batch.groups = <<Len(batch.items)>>

C8_Witness ==
    /\ batch.pc = "done"
    /\ Len(batch.items) = MaxItems
    /\ Len(batch.groups) > 1
    /\ \E j, k \in DOMAIN batch.results :
          /\ batch.results[j].status = "failed"
          /\ batch.results[k].status = "success"
          /\ ItemFailed(batch.results[k])

(***************************************************************************)
(* C9.  With a batch size B of at least one, never more than B items are   *)
(* in flight, and no item of a later group has started while an item of    *)
(* an earlier group has not produced its result.                           *)
(***************************************************************************)
GroupOf(k) == (k - 1) \div batch.batchSize

C9_BoundedFanOut ==
    (batch.pc = "running" /\ batch.batchSize >= 1) =>
        /\ Cardinality(InFlight) <= batch.batchSize
        /\ \A j, k \in DOMAIN batch.items :
              (batch.stage[j] # "pending" /\ GroupOf(k) < GroupOf(j))
                  => batch.stage[k] = "done" /\ IsDefined(batch.slot[k])

C9_Witness ==
    /\ batch.pc = "running"
    /\ batch.batchSize = MaxBatchOpt
    /\ Len(batch.groups) = 2
    /\ \E j, k \in DOMAIN batch.items :
          /\ batch.stage[j] = "routing"
          /\ batch.stage[k] = "done"
          /\ GroupOf(k) < GroupOf(j)

(***************************************************************************)
(* processBatch under the scheduling of the event loop: a routing or       *)
(* backend call that is pending eventually returns, and a settled          *)
(* Promise.all eventually resumes the loop.  With a negative batch size    *)
(* the loop index falls without end; GroupAwaited follows it for MaxSpins  *)
(* iterations, after which the call is still running.                      *)
(***************************************************************************)
SpecBatchFair ==
    /\ SpecBatch
    /\ WF_vars(ItemRouted)
    /\ WF_vars(ItemBackendReturn)
    /\ WF_vars(GroupAwaited(MaxSpins))

(***************************************************************************)
(* C39.  processBatch terminates for every finite list of items and every  *)
(* value of options.batch_size, zero and negative integers included, when  *)
(* every routing and backend call eventually returns.                      *)
(***************************************************************************)
C39_Terminates == (batch.pc = "running") ~> (batch.pc = "done")

(***************************************************************************)
(* C39, by the loop's variant.  processBatch terminates for every list of  *)
(* items and every value of options.batch_size: the loop ends when i       *)
(* reaches items.length, so every iteration that leaves the call running   *)
(* brings i closer to items.length.                                        *)
(***************************************************************************)
C39_LoopAdvances ==
    [][(batch.pc = "running" /\ batch'.pc = "running" /\ batch'.i # batch.i)
          => Len(batch.items) - batch'.i < Len(batch.items) - batch.i]_vars


(***************************************************************************)
(* C10.  A batch item whose processing fails (no executable route, a       *)
(* backend that is unreachable or times out, an unknown model key) is      *)
(* reported with status "failed" and an error message.                     *)
(***************************************************************************)
C10_FailedItemReported ==
    \A k \in DOMAIN batch.slot :
        (IsDefined(batch.slot[k]) /\ ItemFailed(Val(batch.slot[k])))
            => /\ Val(batch.slot[k]).status = "failed"
               /\ IsDefined(Val(batch.slot[k]).error)

(***************************************************************************)
(* SpecOptimize: optimizeRouting and determineRoute called once on drawn   *)
(* decisions, options, daily costs and latency histories.  A history is    *)
(* what updatePerformanceHistory leaves after one or two calls for a       *)
(* model of the catalog.                                                   *)
(***************************************************************************)
RuleDecisions ==
    {applyRoutingRules(c.len, [complexity_score |-> c.score],
                       [content_type |-> c.content_type, categories |-> c.categories]) :
        c \in RuleCalls}

OptionSets ==
    {[NoOptions EXCEPT !.cost_mode = cm, !.priority = pr] :
        cm \in {"none", "optimize"}, pr \in {"none", "high"}}

DailyCosts == {0, HighCost, HighCost + 1}

Latency(l) == [NoMetrics EXCEPT !.latency = Def(l)]

HistoryKeys ==
    {<<"local", "classification">>, <<"local", "complex_reasoning">>,
     <<"local", "vision_analysis">>, <<"local", "general_processing">>,
     <<"cloud", "abacus_gpt4o">>}

PerfHistories ==
    {<< >>}
    \cup {updatePerformanceHistory(<< >>, k[1], k[2], Latency(l)) :
            k \in HistoryKeys, l \in {SlowLatency, SlowLatency + 1}}
    \cup {updatePerformanceHistory(
              updatePerformanceHistory(<< >>, k[1], k[2], Latency(SlowLatency - 10000)),
              k[1], k[2], Latency(SlowLatency + 10001)) : k \in HistoryKeys}

OptimizeCalls ==
    {[fn |-> "optimizeRouting", decision |-> d, options |-> o, dailyCost |-> c,
      perf |-> h, content |-> EmptyText, content_type |-> "text", fault |-> "none",
      cache |-> << >>] :
        d \in RuleDecisions, o \in OptionSets, c \in DailyCosts, h \in PerfHistories}

RouteContents == {Hello, TradingLong}

\* The store when determineRoute is called: empty, or holding "hello" completed.
RouteCaches ==
    {<< >>,
     Put(<< >>, KeyOf(Item(Hello, NoOptions)),
         CompletedInfo(Val(generateContentFingerprint(Item(Hello, NoOptions)).value),
                       "summary", DefaultQuality, 0))}

RouteCalls ==
    {[fn |-> "determineRoute", decision |-> getFallbackRoute(t), options |-> o,
      dailyCost |-> c, perf |-> h, content |-> x, content_type |-> t, fault |-> f,
      cache |-> m] :
        o \in OptionSets, c \in DailyCosts, h \in PerfHistories,
        x \in RouteContents, t \in ContentTypes, f \in Faults, m \in RouteCaches}

InitOptimize ==
    /\ ruleIn \in OptimizeCalls \cup RouteCalls
    /\ ruleOut = Undefined
    /\ RulesIdle

CallOptimizeRouting ==
    /\ ruleIn.fn = "optimizeRouting"
    /\ ruleOut = Undefined
    /\ ruleOut' = Def(optimizeRouting(ruleIn.decision, ruleIn.options, ruleIn.dailyCost,
                                      ruleIn.perf))
    /\ UNCHANGED <<ruleIn, storeVars, req, backends, batch, router, engine>>

\* determineRoute on the drawn store, with the drawn phase failing.
CallDetermineRoute ==
    /\ ruleIn.fn = "determineRoute"
    /\ ruleOut = Undefined
    /\ ruleOut' = determineRoute(ruleIn.content, ruleIn.content_type, ruleIn.options,
                                 ruleIn.cache, ruleIn.dailyCost, ruleIn.perf,
                                 ruleIn.fault).value
    /\ UNCHANGED <<ruleIn, storeVars, req, backends, batch, router, engine>>

NextOptimize == CallOptimizeRouting \/ CallDetermineRoute

SpecOptimize == InitOptimize /\ [][NextOptimize]_vars

Optimized == ruleIn.fn = "optimizeRouting" /\ IsDefined(ruleOut)

CostGuardApplies ==
    /\ ruleIn.options.cost_mode = "optimize"
    /\ ruleIn.dailyCost > HighCost
    /\ ruleIn.decision.route_to = "cloud"

CostSwitched(d) ==
    /\ d.route_to = "local"
    /\ d.model = "complex_reasoning"
    /\ d.original_decision = Def(ruleIn.decision)

LatencySwitched(d) ==
    /\ d.route_to = "cloud"
    /\ d.model = "abacus_claude_haiku"
    /\ IsDefined(d.original_decision)

(***************************************************************************)
(* C11.  Cost guard: with cost_mode optimize, a daily cost above the       *)
(* ceiling and an incoming cloud decision, the decision that leaves the    *)
(* cost guard is local/complex_reasoning with original_decision the        *)
(* incoming decision; otherwise the cost guard leaves the incoming decision*)
(* as it is.  (The latency guard may then wrap what the cost guard left.)  *)
(***************************************************************************)
C11_CostGuard ==
    Optimized =>
        LET out == Val(ruleOut)
        IN IF CostGuardApplies
           THEN \/ CostSwitched(out)
                \/ LatencySwitched(out) /\ CostSwitched(Val(out.original_decision))
           ELSE \/ out = ruleIn.decision
                \/ LatencySwitched(out) /\ out.original_decision = Def(ruleIn.decision)

C11_Witness ==
    /\ Optimized
    /\ CostGuardApplies
    /\ CostSwitched(Val(ruleOut))
    /\ ruleIn.decision.model = "abacus_gpt4o"

(***************************************************************************)
(* C12.  Latency guard: the decision is replaced by cloud/abacus_claude_   *)
(* haiku, with original_decision the decision it replaces, exactly when    *)
(* priority is high and the decision the cost guard left names a local     *)
(* model whose recorded average latency is above 30000 ms; a cloud         *)
(* decision and a model without history are left alone.                    *)
(***************************************************************************)
AfterCostGuard ==
    IF CostGuardApplies
    THEN [Decision("local", "complex_reasoning", "Switched to local due to cost limits")
            EXCEPT !.original_decision = Def(ruleIn.decision)]
    ELSE ruleIn.decision

LatencyGuardApplies ==
    /\ ruleIn.options.priority = "high"
    /\ AfterCostGuard.route_to = "local"
    /\ <<"local", AfterCostGuard.model>> \in DOMAIN ruleIn.perf
    /\ LET h == ruleIn.perf[<<"local", AfterCostGuard.model>>]
       IN h.total_latency > SlowLatency * h.count

C32_OriginalIsRuleDecision ==
    Optimized =>
        LET out == Val(ruleOut)
        IN IF out # ruleIn.decision
           THEN out.original_decision = Def(ruleIn.decision)
           ELSE out.original_decision = Undefined

(***************************************************************************)
(* C33.  With cost_mode optimize and a daily cost above the ceiling, the   *)
(* decision optimizeRouting returns never targets the cloud, whatever the  *)
(* priority and the latency history.                                       *)
(***************************************************************************)
C33_LocalOnlyUnderCostPressure ==
    (/\ Optimized
     /\ ruleIn.options.cost_mode = "optimize"
     /\ ruleIn.dailyCost > HighCost) =>
        Val(ruleOut).route_to # "cloud"

(***************************************************************************)
(* C38.  Every decision determineRoute or optimizeRouting returns has      *)
(* route_to local, cloud or cache; a local decision names a key of the     *)
(* local model catalog and a cloud decision a key of the cloud model       *)
(* catalog.  This holds for rule-engine decisions, optimizer overrides,    *)
(* the duplicate skip and the fallback decision.                           *)
(***************************************************************************)
C38_KnownModel ==
    IsDefined(ruleOut) =>
        LET d == Val(ruleOut)
        IN /\ d.route_to \in {"local", "cloud", "cache"}
           /\ d.route_to = "local" => d.model \in LocalModelKeys
           /\ d.route_to = "cloud" => d.model \in CloudModelKeys

\* The fallback decision, after the rule matching of a video request failed.
C38_Witness ==
    /\ ruleIn.fn = "determineRoute"
    /\ ruleIn.fault = "rules"
    /\ ruleIn.content_type = "video"
    /\ IsDefined(ruleOut)
    /\ Val(ruleOut) = getFallbackRoute(ruleIn.content_type)

(***************************************************************************)
(* SpecCounters: requests that complete concurrently.  ruleIn is the list  *)
(* of completions, each with the key and the figures it reports; ruleOut   *)
(* holds which of them have made their updatePerformanceHistory call and   *)
(* which their updateUsageStats call.  The calls run in any order; each    *)
(* method is synchronous, so a call is one step.                           *)
(***************************************************************************)
Completions ==
    {[route_type |-> "local", model |-> "classification", latency |-> l,
      cost |-> Undefined] : l \in {Undefined, Def(20000), Def(40001)}}
    \cup {[route_type |-> "cloud", model |-> "abacus_gpt4o", latency |-> Def(l),
           cost |-> Def(c)] : l \in {20000, 40001}, c \in {100, 250}}

CompletionLists == UNION {[1..n -> Completions] : n \in 1..MaxUpdates}

InitCounters ==
    /\ ruleIn \in CompletionLists
    /\ ruleOut = [perf |-> {}, usage |-> {}]
    /\ RulesIdle

UpdatePerformanceHistory ==
    /\ \E i \in DOMAIN ruleIn \ ruleOut.perf :
        /\ router' = [router EXCEPT !.performanceHistory =
                         updatePerformanceHistory(@, ruleIn[i].route_type, ruleIn[i].model,
                                                  ruleIn[i])]
        /\ ruleOut' = [ruleOut EXCEPT !.perf = @ \cup {i}]
    /\ UNCHANGED <<ruleIn, storeVars, req, backends, batch, engine>>

UpdateUsageStats ==
    /\ \E i \in DOMAIN ruleIn \ ruleOut.usage :
        /\ ruleIn[i].route_type = "cloud"
        /\ backends' = updateUsageStats(backends, ruleIn[i].model, Val(ruleIn[i].latency),
                                        Val(ruleIn[i].cost))
        /\ ruleOut' = [ruleOut EXCEPT !.usage = @ \cup {i}]
    /\ UNCHANGED <<ruleIn, storeVars, req, batch, router, engine>>

NextCounters == UpdatePerformanceHistory \/ UpdateUsageStats

SpecCounters == InitCounters /\ [][NextCounters]_vars

(***************************************************************************)
(* C13.  After every completed request the counters the optimizer reads    *)
(* are updated: the count of the request's (route_type, model) key goes up *)
(* by one, and today's cost read by the cost guard grows by the request's  *)
(* estimated cost.                                                         *)
(***************************************************************************)
CountOf(perf, key) == IF key \in DOMAIN perf THEN perf[key].count ELSE 0

C13_CountersUpdated ==
    [][(req.pc = "backend" /\ req'.pc = "done") =>
          LET d == Val(req.decision)
              key == PerfKey(d.route_to, d.model)
          IN /\ CountOf(router'.performanceHistory, key)
                    = CountOf(router.performanceHistory, key) + 1
             /\ router'.costTracking
                    = router.costTracking + OrZero(Val(req'.result).estimated_cost)]_vars

(***************************************************************************)
(* C14.  No counter update is lost, whatever the order of the calls: for   *)
(* every key, count is the number of calls made for it, total latency and  *)
(* total cost are the sums of the reported values, and avg_latency is      *)
(* total_latency / count; likewise for updateUsageStats and today's cost.  *)
(***************************************************************************)
CallsFor(done, routeType, model) ==
    {i \in done : ruleIn[i].route_type = routeType /\ ruleIn[i].model = model}

RECURSIVE SumLatency(_)
SumLatency(S) ==
    IF S = {} THEN 0
    ELSE LET i == CHOOSE j \in S : TRUE
         IN OrZero(ruleIn[i].latency) + SumLatency(S \ {i})

RECURSIVE SumCost(_)
SumCost(S) ==
    IF S = {} THEN 0
    ELSE LET i == CHOOSE j \in S : TRUE
         IN OrZero(ruleIn[i].cost) + SumCost(S \ {i})

C14_NoLostUpdate ==
    /\ \A c \in Completions :
          LET key == PerfKey(c.route_type, c.model)
              calls == CallsFor(ruleOut.perf, c.route_type, c.model)
              perf == router.performanceHistory
          IN IF calls = {} THEN key \notin DOMAIN perf
             ELSE /\ key \in DOMAIN perf
                  /\ perf[key].count = Cardinality(calls)
                  /\ perf[key].total_latency = SumLatency(calls)
                  /\ perf[key].total_cost = SumCost(calls)
                  /\ perf[key].avg_latency = Ratio(SumLatency(calls), Cardinality(calls))
    /\ \A c \in Completions :
          LET calls == CallsFor(ruleOut.usage, c.route_type, c.model)
              usage == backends.requestCount
          IN IF calls = {} THEN c.model \notin DOMAIN usage
             ELSE /\ c.model \in DOMAIN usage
                  /\ usage[c.model].count = Cardinality(calls)
                  /\ usage[c.model].totalTime = SumLatency(calls)
                  /\ usage[c.model].totalCost = SumCost(calls)
    /\ backends.costTracking = SumCost(ruleOut.usage)

C14_Witness ==
    /\ \E i, j \in ruleOut.perf :
          /\ i # j
          /\ ruleIn[i].model = ruleIn[j].model
          /\ ruleIn[i].latency # ruleIn[j].latency
    /\ Cardinality(ruleOut.usage) >= 2

(***************************************************************************)
(* C15.  Content of type image that is not a duplicate is always routed to *)
(* local/vision_analysis, whatever the text, the options, the daily cost   *)
(* and the latency history.                                                *)
(***************************************************************************)
C15_ImageToVision ==
    (/\ ruleIn.fn = "determineRoute"
     /\ ruleIn.content_type = "image"
     /\ ruleIn.cache = << >>
     /\ ruleIn.fault = "none"
     /\ IsDefined(ruleOut))
        => /\ Val(ruleOut).route_to = "local"
           /\ Val(ruleOut).model = "vision_analysis"

(***************************************************************************)
(* C16.  Each failed attempt raises the error_count of the record of its   *)
(* fingerprint, which is what bounds the retries of shouldReprocess: when  *)
(* the backend's answer to a request is an error, the store holds a record *)
(* for the request's fingerprint whose error_count is higher than before.  *)
(***************************************************************************)
ErrorCountOf(cache, key) ==
    IF key \in DOMAIN cache /\ IsDefined(cache[key].error_count)
    THEN Val(cache[key].error_count) ELSE 0

C16_FailedAttemptCounted ==
    [][(/\ req.pc = "backend"
        /\ req'.pc = "done"
        /\ Val(req.body).content.kind = "string"
        /\ Val(req'.result).status = "error")
          => /\ KeyOf(ReqItem) \in DOMAIN processedContent'
             /\ ErrorCountOf(processedContent', KeyOf(ReqItem))
                    > ErrorCountOf(processedContent, KeyOf(ReqItem))]_vars

(***************************************************************************)
(* C17.  A record's processing_version never regresses: no operation of    *)
(* the store replaces the version recorded for a fingerprint by an older   *)
(* one, and the version changes only in a step that processes the content  *)
(* again (markAsProcessing or markAsCompleted for that fingerprint).        *)
(***************************************************************************)
VersionOf(cache, key) == cache[key].processing_version

C17_VersionNeverRegresses ==
    [][\A k \in DOMAIN processedContent :
          /\ k \in DOMAIN processedContent'
          /\ IsDefined(VersionOf(processedContent, k)) =>
                /\ IsDefined(VersionOf(processedContent', k))
                /\ ~StrLess(Val(VersionOf(processedContent', k)),
                            Val(VersionOf(processedContent, k)))
          /\ VersionOf(processedContent', k) # VersionOf(processedContent, k) =>
                /\ lastOp'.op \in {"markAsProcessing", "markAsCompleted"}
                /\ lastOp'.key = Def(k)]_vars

\* A record is written again over one that carries a version.
C17_Witness ==
    /\ lastOp.op = "markAsProcessing"
    /\ lastOp.pre = "completed"
    /\ VersionOf(processedContent, Val(lastOp.key)) = Def(getCurrentProcessingVersion)

(***************************************************************************)
(* C18.  markAsProcessing leaves the record of the fingerprint in status   *)
(* processing with started_processing stamped and the current processing   *)
(* version, whatever record was there; a second call in a row with the     *)
(* same arguments leaves the record of the first, started_processing aside.*)
(***************************************************************************)
C18_Marked ==
    lastOp.op = "markAsProcessing" =>
        LET info == processedContent[Val(lastOp.key)]
        IN /\ info.processing_status = Def("processing")
           /\ info.started_processing = Def(now - 1)
           /\ info.processing_version = Def(getCurrentProcessingVersion)
           /\ info.content_hash = lastOp.key

C18_Again ==
    \A k \in DOMAIN processedContent :
        (/\ lastOp.op = "markAsProcessing" /\ lastOp.key = Def(k)
         /\ lastOp'.op = "markAsProcessing" /\ lastOp'.key = Def(k)
         /\ processedContent'[k].original_content = processedContent[k].original_content)
            => processedContent'[k] =
                    [processedContent[k] EXCEPT !.started_processing = Def(now)]

C18_MarkAsProcessing == [](C18_Marked) /\ [][C18_Again]_vars

C18_Witness ==
    /\ lastOp.op = "markAsProcessing"
    /\ lastOp.pre = "processing"
    /\ now = 2
    /\ processedContent[Val(lastOp.key)].started_processing = Def(1)

(***************************************************************************)
(* C19.  markAsCompleted leaves the record completed with                  *)
(* force_reprocess_flag false and error_count 0, whatever record was       *)
(* there; a second call with the same result and quality score leaves the  *)
(* record of the first, last_processed aside.                              *)
(***************************************************************************)
C19_Normalised ==
    lastOp.op = "markAsCompleted" =>
        LET info == processedContent[Val(lastOp.key)]
        IN /\ info.processing_status = Def("completed")
           /\ info.force_reprocess_flag = Def(FALSE)
           /\ info.error_count = Def(0)

C19_Again ==
    \A k \in DOMAIN processedContent :
        (/\ lastOp.op = "markAsCompleted" /\ lastOp.key = Def(k)
         /\ lastOp'.op = "markAsCompleted" /\ lastOp'.key = Def(k)
         /\ processedContent'[k].result = processedContent[k].result
         /\ processedContent'[k].quality_score = processedContent[k].quality_score)
            => processedContent'[k] =
                    [processedContent[k] EXCEPT !.last_processed = Def(now)]

C19_MarkAsCompleted == [](C19_Normalised) /\ [][C19_Again]_vars

C19_Witness ==
    /\ lastOp.op = "markAsCompleted"
    /\ lastOp.pre = "completed"
    /\ now = 2
    /\ processedContent[Val(lastOp.key)].last_processed = Def(1)

(***************************************************************************)
(* C36.  For every record the cache holds after any sequence of            *)
(* markAsProcessing, markAsCompleted (with any quality score) and          *)
(* forceReprocess, shouldReprocess answers force_reprocess_requested or    *)
(* content_acceptable: retry_failed_processing, quality_improvement_       *)
(* available and priority_tags_detected are unreachable.                   *)
(***************************************************************************)
C36_ReachableReasons ==
    \A k \in DOMAIN processedContent :
        shouldReprocess(processedContent[k]).reason
            \in {"force_reprocess_requested", "content_acceptable"}

\* A completed record of low quality beside a record in processing with a priority tag.
C36_Witness ==
    /\ \E k \in DOMAIN processedContent :
          /\ processedContent[k].processing_status = Def("completed")
          /\ JsLess(processedContent[k].quality_score, QualityThreshold)
    /\ \E k \in DOMAIN processedContent :
          /\ processedContent[k].processing_status = Def("processing")
          /\ IsDefined(processedContent[k].content_metadata)
          /\ \E t \in Val(processedContent[k].content_metadata).tags : HoldsPriorityTag(t)

(***************************************************************************)
(* C37.  markAsCompleted changes only the completion fields of a record:   *)
(* the content metadata (post id, tags, normalized URL) and the            *)
(* started_processing stamp written by the preceding markAsProcessing are  *)
(* still in the record afterwards.                                         *)
(***************************************************************************)
C37_Completes(k) ==
    /\ lastOp'.op = "markAsCompleted"
    /\ lastOp'.key = Def(k)
    /\ processedContent[k].processing_status = Def("processing")

C37_KeepsMetadata ==
    [][\A k \in DOMAIN processedContent :
          C37_Completes(k) =>
            /\ processedContent'[k].content_metadata = processedContent[k].content_metadata
            /\ processedContent'[k].started_processing
                    = processedContent[k].started_processing]_vars

(***************************************************************************)
(* C20.  For a fingerprint the store holds, checkIfProcessed reports the   *)
(* lifecycle status last written for it (processing, completed or          *)
(* needs_reprocessing) and the quality_score, last_processed and result of *)
(* its record.                                                             *)
(***************************************************************************)
C20_ReportsRecord ==
    (lastOp.op = "checkIfProcessed" /\ Val(lastOp.key) \in DOMAIN processedContent) =>
        LET info == processedContent[Val(lastOp.key)]
            check == Val(lastOp.check)
        IN /\ check.is_duplicate
           /\ check.processing_status = info.processing_status
           /\ check.processing_status # Undefined
           /\ check.quality_score = info.quality_score
           /\ check.last_processed = info.last_processed
           /\ check.cached_result = info.result

(***************************************************************************)
(* C21.  checkIfProcessed answers from the in-memory cache without asking  *)
(* the durable store when the cache holds the fingerprint, and asks the    *)
(* durable store only on a cache miss; when neither holds the fingerprint  *)
(* it reports is_duplicate false with should_process true and leaves the   *)
(* cache unchanged.                                                        *)
(***************************************************************************)
C21_Lookup ==
    \A item \in StoreItems :
        (lastOp'.op = "checkIfProcessed" /\ lastOp'.key = Def(KeyOf(item))) =>
            IF KeyOf(item) \in DOMAIN processedContent
            THEN /\ lastOp'.db = 0
                 /\ Val(lastOp'.check).is_duplicate
                 /\ processedContent' = processedContent
            ELSE /\ lastOp'.db = 1
                 /\ (~checkDatabase(Val(generateContentFingerprint(item).value)).found =>
                        /\ ~Val(lastOp'.check).is_duplicate
                        /\ Val(lastOp'.check).should_process
                        /\ processedContent' = processedContent)
                 /\ (checkDatabase(Val(generateContentFingerprint(item).value)).found =>
                        KeyOf(item) \in DOMAIN processedContent')

C22_StorageUnavailable ==
    contentDatabase = Undefined =>
        /\ (lastOp.op \in {"markAsProcessing", "markAsCompleted"} =>
                /\ lastOp.raised
                /\ Val(lastOp.key) \in DOMAIN processedContent)
        /\ ((lastOp.op = "forceReprocess" /\ lastOp.saves > 0) => lastOp.raised)
        /\ ((lastOp.op = "checkIfProcessed" /\ lastOp.pre # "new") =>
                Val(lastOp.check).is_duplicate)

(***************************************************************************)
(* C23.  forceReprocess with an identifier that resolves to no fingerprint *)
(* of a record is a no-op: it returns without error, saves nothing to the  *)
(* durable store and leaves every record of the cache unchanged.           *)
(***************************************************************************)
C23_NoOp ==
    (lastOp'.op = "forceReprocess" /\ lastOp'.hashes \cap DOMAIN processedContent = {}) =>
        /\ ~lastOp'.raised
        /\ lastOp'.saves = 0
        /\ processedContent' = processedContent

C23_ForceReprocessNoOp == [][C23_NoOp]_vars

\* forceReprocess has run on a store that holds records.
C23_Witness ==
    /\ lastOp.op = "forceReprocess"
    /\ lastOp.hashes = {}
    /\ Cardinality(DOMAIN processedContent) >= 2
    /\ \E k \in DOMAIN processedContent : StatusOf(processedContent, k) = "completed"

(***************************************************************************)
(* C24.  Within one /route request the phases run strictly in sequence:    *)
(* dedup check, complexity and classification, rule matching,              *)
(* optimization, execution on the chosen backend, metric recording.  The   *)
(* backend is called only with the final decision, and the metrics are     *)
(* recorded only after the backend has answered.                           *)
(***************************************************************************)
PhaseOrder == <<"dedup", "complexity", "classification", "rules", "optimization">>
StepOrder == <<"determineRoute", "executeRouting", "process", "logMetrics", "respond">>

IsPrefix(s, t) == Len(s) <= Len(t) /\ \A i \in 1..Len(s) : s[i] = t[i]

\* s holds its entries in the order of t (whose entries are distinct), with none
\* repeated.
InOrder(s, t) ==
    /\ \A i \in 1..Len(s) : \E k \in 1..Len(t) : s[i] = t[k]
    /\ \A i, j \in 1..Len(s) :
          i < j => \E k, l \in 1..Len(t) : k < l /\ s[i] = t[k] /\ s[j] = t[l]

C24_Sequential ==
    /\ IsPrefix(req.phases, PhaseOrder)
    /\ InOrder(req.trace, StepOrder)
    /\ req.pc = "backend" =>
          /\ IsDefined(req.decision)
          /\ req.trace = <<"determineRoute", "executeRouting">>
          /\ req.phases # <<>>
          /\ req.result = Undefined
          /\ req.metrics = Undefined
    /\ IsDefined(req.result) => IsDefined(req.decision)
    /\ IsDefined(req.metrics) =>
          /\ IsDefined(req.result)
          /\ req.trace = StepOrder

C24_Witness ==
    /\ req.pc = "done"
    /\ req.code = 200
    /\ req.phases = PhaseOrder
    /\ IsDefined(req.metrics)

(***************************************************************************)
(* The classifier and the router on drawn texts.  A text holds each word   *)
(* of the vocabulary up to MaxRepeat times and is either just its words or *)
(* filled up with plain characters to 6000 characters.                     *)
(***************************************************************************)
Vocabulary == <<"analysis", "arbitrage", "trading", "data", "code", "stock", "tesla">>
\* The length of the long trading text: 1000 over the long-content mark.
ScenarioLength == LongContentLength + 1000

RECURSIVE Repeat(_, _)
Repeat(w, n) == IF n = 0 THEN <<>> ELSE <<w>> \o Repeat(w, n - 1)

RECURSIVE WordsOf(_, _)
WordsOf(counts, k) ==
    IF k > Len(Vocabulary) THEN <<>>
    ELSE Repeat(Vocabulary[k], counts[k]) \o WordsOf(counts, k + 1)

TextOf(counts, filled) ==
    LET ws == WordsOf(counts, 1)
        bare == [kind |-> "string", words |-> ws, pad |-> 0, ws |-> 0]
    IN IF filled THEN [bare EXCEPT !.pad = ScenarioLength - Length(bare)] ELSE bare

\* The texts with every word of the vocabulary at most maxRepeat times.
ClassifyTexts(maxRepeat) ==
    {TextOf(counts, filled) :
        counts \in [1..Len(Vocabulary) -> 0..maxRepeat], filled \in BOOLEAN}

ClassifyCalls(maxRepeat) ==
    {[fn |-> call[1], content |-> c, force_cloud |-> call[2]] :
        call \in {<<"analyzeComplexity", FALSE>>, <<"route", FALSE>>, <<"route", TRUE>>},
        c \in ClassifyTexts(maxRepeat)}

InitClassify ==
    /\ ruleIn \in ClassifyCalls(MaxRepeat)
    /\ ruleOut = Undefined
    /\ RulesIdle

CallAnalyzeComplexity ==
    /\ ruleIn.fn = "analyzeComplexity"
    /\ ruleOut = Undefined
    /\ ruleOut' = Def(analyzeComplexity(ruleIn.content))
    /\ UNCHANGED <<ruleIn, storeVars, req, backends, batch, router, engine>>

\* determineRoute on a fresh router, with what its two analysis phases computed.
CallRoute ==
    /\ ruleIn.fn = "route"
    /\ ruleOut = Undefined
    /\ ruleOut' = Def([complexity |-> analyzeComplexity(ruleIn.content),
                       classification |-> classifyContent(ruleIn.content, "text"),
                       decision |-> Val(determineRoute(
                                            ruleIn.content, "text",
                                            [NoOptions EXCEPT !.force_cloud = ruleIn.force_cloud],
                                            processedContent, getDailyCost,
                                            performanceHistory, "none").value)])
    /\ UNCHANGED <<ruleIn, storeVars, req, backends, batch, router, engine>>

NextClassify == CallAnalyzeComplexity \/ CallRoute

SpecClassify == InitClassify /\ [][NextClassify]_vars

(***************************************************************************)
(* C25.  analyzeComplexity returns a complexity_score between 0 and 1      *)
(* inclusive for every text, however long it is and however many keyword   *)
(* families and matches it holds.                                          *)
(***************************************************************************)
C25_ScoreInRange ==
    (ruleIn.fn = "analyzeComplexity" /\ IsDefined(ruleOut)) =>
        /\ Val(ruleOut).complexity_score >= 0
        /\ Val(ruleOut).complexity_score <= MaxScore

\* A text whose increments add up to more than 1.
C25_Witness ==
    /\ ruleIn.fn = "analyzeComplexity"
    /\ IsDefined(ruleOut)
    /\ analyzeComplexity_uncapped(ruleIn.content).complexity_score > MaxScore
    /\ Val(ruleOut).complexity_score = MaxScore

(***************************************************************************)
(* C26.  A text of length 6000 that holds the four trading keywords        *)
(* arbitrage, trading, tesla and stock is classified trading_content with  *)
(* requires_cloud, scores above 0.7 and is routed to cloud/abacus_gpt4o.   *)
(***************************************************************************)
C26_Scenario ==
    /\ ruleIn.fn = "route"
    /\ IsDefined(ruleOut)
    /\ Length(ruleIn.content) = ScenarioLength
    /\ \A w \in {"arbitrage", "trading", "tesla", "stock"} :
          \E i \in DOMAIN ruleIn.content.words : ruleIn.content.words[i] = w

C26_TradingToCloud ==
    C26_Scenario =>
        /\ "trading_content" \in Val(ruleOut).classification.categories
        /\ Val(ruleOut).classification.requires_cloud
        /\ Val(ruleOut).complexity.complexity_score > TradingScore
        /\ Val(ruleOut).decision.route_to = "cloud"
        /\ Val(ruleOut).decision.model = "abacus_gpt4o"

(***************************************************************************)
(* C31.  A text request with options.force_cloud = true and more than two  *)
(* distinct trading keywords (requires_cloud true) gets a decision with    *)
(* route_to cloud.                                                         *)
(***************************************************************************)
C31_ForcedCloud ==
    (/\ ruleIn.fn = "route"
     /\ IsDefined(ruleOut)
     /\ ruleIn.force_cloud
     /\ Val(ruleOut).classification.requires_cloud) =>
        Val(ruleOut).decision.route_to = "cloud"

(***************************************************************************)
(* Fingerprints of written-out texts.  A text is a sequence of pieces:     *)
(* "w" a lowercase word, "W" the same word in capitals, "sp" a whitespace  *)
(* character, "T" a relative-time phrase such as "3 hours ago".  A digest  *)
(* is modelled by the text it hashes.                                      *)
(***************************************************************************)
Pieces == {"w", "W", "sp", "T"}

\* replace(/\s+/g, ' '): every run of whitespace becomes one space.
RECURSIVE collapseWhitespace(_)
collapseWhitespace(text) ==
    IF Len(text) < 2 THEN text
    ELSE IF text[1] = "sp" /\ text[2] = "sp" THEN collapseWhitespace(Tail(text))
    ELSE <<text[1]>> \o collapseWhitespace(Tail(text))

\* replace(/\d+ hours? ago|\d+ minutes? ago/g, ''): the phrases are cut out.
RECURSIVE removeRelativeTimes(_)
removeRelativeTimes(text) ==
    IF text = <<>> THEN <<>>
    ELSE IF Head(text) = "T" THEN removeRelativeTimes(Tail(text))
    ELSE <<Head(text)>> \o removeRelativeTimes(Tail(text))

RECURSIVE trimStart(_)
trimStart(text) ==
    IF text # <<>> /\ Head(text) = "sp" THEN trimStart(Tail(text)) ELSE text

RECURSIVE trimEnd(_)
trimEnd(text) ==
    IF text # <<>> /\ text[Len(text)] = "sp"
    THEN trimEnd(SubSeq(text, 1, Len(text) - 1)) ELSE text

trim(text) == trimEnd(trimStart(text))

toLowerCase(text) == [i \in 1..Len(text) |-> IF text[i] = "W" THEN "w" ELSE text[i]]

normalizeTextOf(text) ==
    IF text = <<>> THEN <<>> ELSE toLowerCase(trim(collapseWhitespace(text)))

createContentHashOf(content) ==
    IF content = <<>> THEN [empty |-> TRUE, text |-> <<>>]
    ELSE [empty |-> FALSE,
          text |-> toLowerCase(trim(removeRelativeTimes(collapseWhitespace(content))))]

\* primary_fingerprint of generateContentFingerprint for an item of written-out texts.
primaryFingerprintOf(item) ==
    <<extractPatreonPostId(item.url), normalizeTextOf(item.title),
      createContentHashOf(item.content)>>

\* The texts of at most maxChars characters.
Bodies(maxChars) == UNION {[1..n -> Pieces] : n \in 0..maxChars}

InsertAt(text, i, c) == SubSeq(text, 1, i) \o <<c>> \o SubSeq(text, i + 1, Len(text))
RemoveAt(text, i) == SubSeq(text, 1, i - 1) \o SubSeq(text, i + 1, Len(text))
SwapCase(text, i) ==
    [text EXCEPT ![i] = IF @ = "w" THEN "W" ELSE IF @ = "W" THEN "w" ELSE @]

\* A text and the texts one edit away from it.
Edits(text) ==
    {text}
    \cup {InsertAt(text, i, c) : i \in 0..Len(text), c \in {"sp", "T"}}
    \cup {RemoveAt(text, i) : i \in 1..Len(text)}
    \cup {SwapCase(text, i) : i \in 1..Len(text)}

Titles == {<<"w">>, <<"sp", "W", "sp", "sp">>}

FingerprintCalls(maxChars) ==
    UNION {{[fn |-> "generateContentFingerprint",
             a |-> [title |-> <<"w">>, content |-> body, url |-> u],
             b |-> [title |-> t, content |-> other, url |-> u]] :
                other \in Edits(body), t \in Titles, u \in {NoUrl, PostUrl}}
            : body \in Bodies(maxChars)}

InitFingerprint ==
    /\ ruleIn \in FingerprintCalls(MaxChars)
    /\ ruleOut = Undefined
    /\ RulesIdle

\* The fingerprints of the two items, and of the first one once more.
CallGenerateContentFingerprint ==
    /\ ruleIn.fn = "generateContentFingerprint"
    /\ ruleOut = Undefined
    /\ ruleOut' = Def([a |-> primaryFingerprintOf(ruleIn.a),
                       b |-> primaryFingerprintOf(ruleIn.b),
                       again |-> primaryFingerprintOf(ruleIn.a)])
    /\ UNCHANGED <<ruleIn, storeVars, req, backends, batch, router, engine>>

NextFingerprint == CallGenerateContentFingerprint

SpecFingerprint == InitFingerprint /\ [][NextFingerprint]_vars

(***************************************************************************)
(* C27.  Two items with the same post id, the same title up to whitespace  *)
(* and case, and the same body up to whitespace runs, case and embedded    *)
(* relative-time phrases get the same primary_fingerprint, and a repeated  *)
(* call on the same item returns the same fingerprint.                     *)
(***************************************************************************)
\* A text without its relative-time phrases, whitespace runs and capitals.
PlainText(text) == toLowerCase(trim(collapseWhitespace(removeRelativeTimes(text))))

SameContent(a, b) ==
    /\ a.url = b.url
    /\ PlainText(a.title) = PlainText(b.title)
    /\ PlainText(a.content) = PlainText(b.content)

C27_SameFingerprint ==
    (ruleIn.fn = "generateContentFingerprint" /\ IsDefined(ruleOut)) =>
        /\ Val(ruleOut).again = Val(ruleOut).a
        /\ SameContent(ruleIn.a, ruleIn.b) => Val(ruleOut).a = Val(ruleOut).b

(***************************************************************************)
(* A decision of the router executed: determineRoute on a drawn text, then *)
(* RouterController.executeRouting with a drawn outcome of the backend     *)
(* call.                                                                   *)
(***************************************************************************)
ExecuteCalls(maxRepeat) ==
    {[fn |-> "executeRouting", content |-> c, outcome |-> o] :
        c \in ClassifyTexts(maxRepeat), o \in Outcomes}

InitExecute ==
    /\ ruleIn \in ExecuteCalls(MaxRepeat)
    /\ ruleOut = Undefined
    /\ RulesIdle

CallExecuteRouting ==
    /\ ruleIn.fn = "executeRouting"
    /\ ruleOut = Undefined
    /\ \E replyLength \in ReplyLengths, time \in ProcessingTimes :
        LET routingDecision == Val(determineRoute(ruleIn.content, "text", NoOptions,
                                                  processedContent, getDailyCost,
                                                  performanceHistory, "none").value)
            x == executeRouting(backends, routingDecision, ruleIn.content,
                                ruleIn.outcome, replyLength, time)
        IN /\ ruleOut' = Def([decision |-> routingDecision, result |-> x.result])
           /\ backends' = x.backends
    /\ UNCHANGED <<ruleIn, storeVars, req, batch, router, engine>>

NextExecute == CallExecuteRouting

SpecExecute == InitExecute /\ [][NextExecute]_vars

(***************************************************************************)
(* C28.  fallback_to_cloud is honoured: when a decision flagged            *)
(* fallback_to_cloud is executed and the local model call ends in an error *)
(* or a timeout, the request is executed on a cloud model instead of being *)
(* returned as a failure.                                                  *)
(***************************************************************************)
C28_FallbackHonoured ==
    (/\ ruleIn.fn = "executeRouting"
     /\ IsDefined(ruleOut)
     /\ Val(ruleOut).decision.fallback_to_cloud
     /\ ruleIn.outcome # "ok")
        => Val(ruleOut).result.route_type = "cloud"

(***************************************************************************)
(* C29.  The router uses the cloud only for complex analysis: for every    *)
(* content, options and state of the counters, determineRoute returns a    *)
(* cloud decision only if the content's complexity_score exceeds 0.7.      *)
(***************************************************************************)
C29_CloudOnlyIfComplex ==
    (/\ ruleIn.fn = "determineRoute"
     /\ IsDefined(ruleOut)
     /\ Val(ruleOut).route_to = "cloud")
        => analyzeComplexity(ruleIn.content).complexity_score > TradingScore

(***************************************************************************)
(* The workflow engine: initialize(), execute() calls through POST         *)
(* /workflow, and the cron jobs of the scheduled workflows.                *)
(***************************************************************************)
\* The names of the entries of the configuration, two and three levels deep.
EntryNames ==
    UNION {{<<c, w>> : w \in DOMAIN WorkflowOrchestration[c]}
            : c \in DOMAIN WorkflowOrchestration}

\* The workflows of the configuration by their full dotted names: an entry with
\* steps, or a list of steps one level further down.
FullNames ==
    {n \in EntryNames : "steps" \in DOMAIN WorkflowOrchestration[n[1]][n[2]]}
    \cup UNION {{<<n[1], n[2], k>> : k \in DOMAIN WorkflowOrchestration[n[1]][n[2]]}
                 : n \in {m \in EntryNames :
                            "steps" \notin DOMAIN WorkflowOrchestration[m[1]][m[2]]}}

RequestedNames == EntryNames \cup FullNames \cup {<<"unknown_workflow">>}
WorkflowInputs == {"test workflow execution", "bitcoin"}

Initialized == engine.workflows # << >>

WorkflowInitialize ==
    /\ ~Initialized
    /\ engine' = [engine EXCEPT
                    !.workflows = loadWorkflowTemplates(WorkflowOrchestration),
                    !.activeJobs = scheduleAutomaticWorkflows(WorkflowOrchestration)]
    /\ UNCHANGED <<pureVars, storeVars, req, backends, batch, router>>

WorkflowExecute ==
    /\ Len(engine.runs) < MaxRuns
    /\ \E workflowName \in RequestedNames, inputData \in WorkflowInputs :
        engine' = [engine EXCEPT
                    !.runs = Append(@, [call |-> execute(engine.workflows, workflowName,
                                                         inputData),
                                        input |-> inputData,
                                        initialized |-> Initialized])]
    /\ UNCHANGED <<pureVars, storeVars, req, backends, batch, router>>

\* A cron job fires and executes its scraping workflow.
CronFire ==
    /\ Len(engine.runs) < MaxRuns
    /\ \E workflowName \in engine.activeJobs :
        engine' = [engine EXCEPT
                    !.runs = Append(@, [call |-> execute(engine.workflows,
                                                         <<"scraping_workflows", workflowName>>,
                                                         ""),
                                        input |-> "",
                                        initialized |-> Initialized])]
    /\ UNCHANGED <<pureVars, storeVars, req, backends, batch, router>>

NextWorkflow == WorkflowInitialize \/ WorkflowExecute \/ CronFire

SpecWorkflow == InitStore /\ [][NextWorkflow]_vars

(***************************************************************************)
(* C30.  After initialize(), every workflow of workflow_config.json can be *)
(* executed by its full dotted name: execute returns status completed and  *)
(* does not raise 'Workflow not found'; in particular                      *)
(* dynamic_workflows.user_triggered.search_and_analyze.                    *)
(***************************************************************************)
C30_DefinedWorkflowsRun ==
    \A i \in DOMAIN engine.runs :
        (engine.runs[i].initialized /\ engine.runs[i].call.workflow \in FullNames) =>
            /\ ~engine.runs[i].call.threw
            /\ engine.runs[i].call.status = Def("completed")

====
